---- MODULE Spec2Model ----
(***************************************************************************)
(* The auto-discovery project picker of ai-summon: the Git repository      *)
(* scanner (src/src/util.ts findGitRepositories), the repository cache     *)
(* file (readIdeReposCache / writeIdeReposCache) and, of                   *)
(* src/src/commands/ide/index.ts, loadConfig, the commands openIDE and     *)
(* refreshIdeReposCache, getAllProjects, searchAllProjects and             *)
(* formatProjectsWithSeparators.                                           *)
(*                                                                         *)
(* A path is the sequence of its components below "/": <<>> is "/",        *)
(* <<"a","b">> is "/a/b".  join(dir, name) is Append(dir, name).           *)
(* A directory that is locked denies every file-system call made on it     *)
(* (stat of an entry inside it and listing it): existsSync answers false   *)
(* and readdirSync throws, as they do for a directory that is absent.      *)
(***************************************************************************)
EXTENDS Integers, Sequences, FiniteSets, TLC

\* Bounds of the modelled file system.
MaxDepth == 2
NumNames == 2
MaxDirs == 2

NameTable == <<"a", "b", "c", "d">>
Names == {NameTable[i] : i \in 1..NumNames}
Paths == UNION {[1..k -> Names] : k \in 0..MaxDepth}

\* Working directories a configuration may name.
WorkDirs == {<<>>, <<"a">>}

\* The value of a module variable that was never assigned.
undefined == <<"undefined">>

\* The default value of scanDirectory's topLevelFolder parameter.
RootSentinel == "/"

VARIABLES
  fs,                  \* the directory tree: [dirs, git, locked], sets of paths
  readdirDesc,         \* the order readdirSync lists entries in (FALSE: a, b, c)
  scan,                \* the last call of findGitRepositories and what it returned
  config,              \* ~/.ai/config.json as readConfig returns it
  cacheFile,           \* ~/.ai/ide-repos-cache.json
  workingDirectory,    \* module variable of commands/ide/index.ts
  autoDiscoveredRepos, \* module variable of commands/ide/index.ts
  reposConfig,         \* module variable of commands/ide/index.ts
  currentCategory,     \* module variable of commands/ide/index.ts
  last,                \* what the last command did (observation)
  lastWrite,           \* the writeIdeReposCache call the file stems from (history)
  terminal,            \* what the last command has put before the user
  cloud,               \* the cloud commands: the yiren section and the run
  race                 \* two processes that run loadConfig at the same time

vars == <<fs, readdirDesc, scan, config, cacheFile, workingDirectory,
          autoDiscoveredRepos, reposConfig, currentCategory, last, lastWrite,
          terminal, cloud, race>>

----------------------------------------------------------------------------
\* Paths

IsPrefix(p, q) == Len(p) <= Len(q) /\ SubSeq(q, 1, Len(p)) = p
IsStrictPrefix(p, q) == Len(p) < Len(q) /\ SubSeq(q, 1, Len(p)) = p
Parent(p) == SubSeq(p, 1, Len(p) - 1)

\* path.basename: the last component; basename("/") is the empty string.
basename(dir) == IF Len(dir) = 0 THEN "" ELSE dir[Len(dir)]

\* path.join(dir, name)
join(dir, name) == Append(dir, name)

----------------------------------------------------------------------------
\* The file system as the scanner sees it

\* Every fs call on dir fails unless dir exists and dir and the directories
\* above it may be accessed.
Accessible(dir) ==
  /\ dir \in fs.dirs
  /\ \A k \in 0..Len(dir) : SubSeq(dir, 1, k) \notin fs.locked

\* existsSync(join(dir, '.git')): false on any error.
existsSyncGit(dir) == Accessible(dir) /\ dir \in fs.git

\* The names in listing order.
NameSeq ==
  [i \in 1..NumNames |->
     IF readdirDesc THEN NameTable[NumNames + 1 - i] ELSE NameTable[i]]

IsDirectoryEntry(dir, n) == Len(dir) < MaxDepth /\ join(dir, n) \in fs.dirs

\* readdirSync(dir, {withFileTypes}) filtered by entry.isDirectory():
\* the names of the subdirectories of dir, in listing order.
readdirSync(dir) == SelectSeq(NameSeq, LAMBDA n : IsDirectoryEntry(dir, n))

\* readdirSync throws (ENOENT, EACCES, ENOTDIR).
readdirThrows(dir) == ~Accessible(dir)

----------------------------------------------------------------------------
\* findGitRepositories (util.ts 109-146)
\*
\* A call of scanDirectory yields [repos, threw]: the repositories array
\* after the call and whether an exception left the call.

GitRepository(dir, topLevelFolder) ==
  [name |-> basename(dir), path |-> dir, topLevelFolder |-> topLevelFolder]

\* Variant: the entry's own name at every depth.
currentTopLevelAlwaysEntry(root, dir, entryName, topLevelFolder) == entryName

\* const currentTopLevel = isTopLevel ? entry.name : topLevelFolder
currentTopLevel(root, dir, entryName, topLevelFolder) ==
  IF dir = root THEN entryName ELSE topLevelFolder

\* Variant: no catch, the exception leaves the call.
NoCatch(r) == r

\* try { ... } catch { }: the exception is swallowed, what was pushed stays.
Catch(r) == [repos |-> r.repos, threw |-> FALSE]

RECURSIVE scanDirectory(_, _, _, _)
RECURSIVE ScanEntries(_, _, _, _, _)

\* Variant: the entry is pushed twice.
FoundRepositoryTwice(dir, topLevelFolder, repositories) ==
  [repos |-> Append(Append(repositories, GitRepository(dir, topLevelFolder)),
                    GitRepository(dir, topLevelFolder)),
   threw |-> FALSE]

\* The body of the try block once .git was found
FoundRepository(dir, topLevelFolder, repositories) ==
  [repos |-> Append(repositories, GitRepository(dir, topLevelFolder)),
   threw |-> FALSE]

\* Variant: the loop ends after its first entry.
ScanEntriesFirstOnly(root, dir, topLevelFolder, entries, repositories) ==
  IF entries = <<>>
  THEN [repos |-> repositories, threw |-> FALSE]
  ELSE scanDirectory(root, join(dir, Head(entries)),
                     currentTopLevel(root, dir, Head(entries), topLevelFolder),
                     repositories)

\* for (const entry of entries) if (entry.isDirectory()) scanDirectory(...)
ScanEntries(root, dir, topLevelFolder, entries, repositories) ==
  IF entries = <<>>
  THEN [repos |-> repositories, threw |-> FALSE]
  ELSE LET entry == Head(entries)
           r == scanDirectory(root, join(dir, entry),
                              currentTopLevel(root, dir, entry, topLevelFolder),
                              repositories)
       IN IF r.threw
          THEN r
          ELSE ScanEntries(root, dir, topLevelFolder, Tail(entries), r.repos)

\* Variant: no return after the push, the walk goes on below a repository.
scanDirectoryNoReturn(root, dir, topLevelFolder, repositories) ==
  Catch(IF readdirThrows(dir)
        THEN [repos |-> repositories, threw |-> TRUE]
        ELSE ScanEntries(root, dir, topLevelFolder, readdirSync(dir),
                         IF existsSyncGit(dir)
                         THEN Append(repositories,
                                     GitRepository(dir, topLevelFolder))
                         ELSE repositories))

scanDirectory(root, dir, topLevelFolder, repositories) ==
  Catch(IF existsSyncGit(dir)
        THEN FoundRepository(dir, topLevelFolder, repositories)
        ELSE IF readdirThrows(dir)
             THEN [repos |-> repositories, threw |-> TRUE]
             ELSE ScanEntries(root, dir, topLevelFolder, readdirSync(dir),
                              repositories))

\* Variant: the walk starts with the name of the root as top-level folder.
findGitRepositoriesRootName(root) ==
  scanDirectory(root, root, basename(root), <<>>)

findGitRepositories(root) == scanDirectory(root, root, RootSentinel, <<>>)

----------------------------------------------------------------------------
\* The environment: the user changes the directory tree.

NoFile == [kind |-> "absent", version |-> 0, workingDirectory |-> undefined,
           updatedAt |-> 0, reposIsArray |-> FALSE, repos |-> <<>>]
NoWrite == [done |-> FALSE, workingDirectory |-> undefined, repos |-> <<>>]
NoScan == [state |-> "idle", root |-> <<>>, repos |-> <<>>, threw |-> FALSE]
EnvOp == [op |-> "env", refresh |-> FALSE, miss |-> FALSE, scanned |-> FALSE,
          threw |-> FALSE, again |-> FALSE, stale |-> FALSE,
          typeError |-> FALSE]

\* A manual category map that is undefined.  A map that is defined lists its
\* categories, and each category its projects, in insertion order.
NoRepos == [defined |-> FALSE, categories |-> <<>>]

\* let currentCategory: string (index.ts 25), declared and not assigned
NoCategory == ""

\* No error object
NoError == [message |-> "", path |-> undefined]

\* No ssh or scp command has been executed
NoCommand == [program |-> "", service |-> "", env |-> "", recursive |-> FALSE]

\* No cloud command has run, and the configuration has no yiren section.
NoCloud == [yiren |-> <<>>, keyFound |-> TRUE, command |-> "", pc |-> "idle",
            service |-> "", env |-> "", isDirectory |-> FALSE,
            confirmShown |-> FALSE, confirmProduction |-> FALSE,
            executed |-> NoCommand, printed |-> "", exitCode |-> 0]

\* The processes that run at the same time
Procs == {1, 2}

\* A process that has not started
IdleProc == [pc |-> "idle", refresh |-> FALSE, hit |-> FALSE, repos |-> <<>>]

\* No process runs, and the cache file holds no byte.
NoRace == [proc |-> [p \in Procs |-> IdleProc], length |-> 0]

\* No editor has been launched
NoLaunch == [via |-> "", path |-> undefined, name |-> ""]

\* The terminal before a command has printed anything or opened a prompt
Blank == [picker |-> "none", projects |-> <<>>, listed |-> FALSE,
          input |-> <<>>, rows |-> <<>>, error |-> NoError,
          uncaught |-> FALSE, printed |-> "", regrew |-> FALSE,
          ideType |-> "", searchMode |-> FALSE, step |-> "none",
          aborted |-> FALSE, launched |-> NoLaunch]

\* The environment acts between two invocations of the CLI: the module
\* variables of the process that ended are gone (index.ts 24-27).
ProcessGone ==
  /\ workingDirectory' = undefined
  /\ autoDiscoveredRepos' = <<>>
  /\ reposConfig' = NoRepos
  /\ currentCategory' = NoCategory
  /\ last' = EnvOp
  /\ terminal' = Blank

Mkdir(p) ==
  /\ p \in Paths /\ p \notin fs.dirs
  /\ Len(p) > 0 /\ Parent(p) \in fs.dirs
  /\ Cardinality(fs.dirs) <= MaxDirs
  /\ fs' = [fs EXCEPT !.dirs = @ \cup {p}]
  /\ scan' = NoScan
  /\ ProcessGone
  /\ UNCHANGED <<readdirDesc, config, cacheFile, lastWrite>>
  /\ UNCHANGED <<cloud, race>>

GitInit(p) ==
  /\ p \in fs.dirs /\ p \notin fs.git
  /\ fs' = [fs EXCEPT !.git = @ \cup {p}]
  /\ scan' = NoScan
  /\ ProcessGone
  /\ UNCHANGED <<readdirDesc, config, cacheFile, lastWrite>>
  /\ UNCHANGED <<cloud, race>>

Chmod000(p) ==
  /\ p \in fs.dirs /\ p \notin fs.locked
  /\ fs' = [fs EXCEPT !.locked = @ \cup {p}]
  /\ scan' = NoScan
  /\ ProcessGone
  /\ UNCHANGED <<readdirDesc, config, cacheFile, lastWrite>>
  /\ UNCHANGED <<cloud, race>>

----------------------------------------------------------------------------
\* A call of findGitRepositories on its own.

Scan(root) ==
  /\ root \in WorkDirs
  /\ LET r == findGitRepositories(root)
     IN scan' = [state |-> "returned", root |-> root, repos |-> r.repos,
                 threw |-> r.threw]
  /\ UNCHANGED <<fs, readdirDesc, config, cacheFile, workingDirectory,
                 autoDiscoveredRepos, reposConfig, currentCategory, last,
                 lastWrite, terminal>>
  /\ UNCHANGED <<cloud, race>>

InitFs == [dirs |-> {<<>>}, git |-> {}, locked |-> {}]

InitScan ==
  /\ fs = InitFs
  /\ readdirDesc \in BOOLEAN
  /\ scan = NoScan
  /\ config = [workingDirectory |-> undefined, repos |-> NoRepos]
  /\ cacheFile = NoFile
  /\ workingDirectory = undefined
  /\ autoDiscoveredRepos = <<>>
  /\ reposConfig = NoRepos
  /\ currentCategory = NoCategory
  /\ last = EnvOp
  /\ lastWrite = NoWrite
  /\ terminal = Blank
  /\ cloud = NoCloud
  /\ race = NoRace

NextScan ==
  \/ \E p \in Paths : Mkdir(p)
  \/ \E p \in Paths : GitInit(p)
  \/ \E p \in Paths : Chmod000(p)
  \/ \E root \in WorkDirs : Scan(root)

SpecScan == InitScan /\ [][NextScan]_vars

----------------------------------------------------------------------------
\* The repository cache file (util.ts 62-107)
\*
\* The file is absent, or holds text JSON.parse rejects ("garbage"), or
\* holds a JSON document with the fields below.  A version of 0 stands for
\* a missing version field; reposIsArray tells whether repos is an array.

\* The values Date.now() may give: an older and a newer time stamp.
Times == {0, 1}

\* version: 1 of IdeReposCacheFileV1
CacheVersion == 1

\* GitRepository[] | null, and whether an exception left the call
Null == [hit |-> FALSE, repos |-> <<>>, threw |-> FALSE]
Threw == [hit |-> FALSE, repos |-> <<>>, threw |-> TRUE]

\* existsSync(cachePath)
existsSyncCache == cacheFile.kind # "absent"

\* JSON.parse(raw) throws a SyntaxError
JSONparseThrows(raw) == raw.kind = "garbage"

\* Variant: a snapshot that does not bear the newest time stamp has expired.
ParseAndValidateTTL(raw, wd) ==
  IF JSONparseThrows(raw) THEN Threw
  ELSE IF raw.version # CacheVersion THEN Null
  ELSE IF raw.workingDirectory # wd THEN Null
  ELSE IF raw.updatedAt < 1 THEN Null
  ELSE IF ~raw.reposIsArray THEN Null
  ELSE [hit |-> TRUE, repos |-> raw.repos, threw |-> FALSE]

\* Variant: the working directory of the snapshot is not compared.
ParseAndValidateAnyDir(raw, wd) ==
  IF JSONparseThrows(raw) THEN Threw
  ELSE IF raw.version # CacheVersion THEN Null
  ELSE IF ~raw.reposIsArray THEN Null
  ELSE [hit |-> TRUE, repos |-> raw.repos, threw |-> FALSE]

\* The try block of readIdeReposCache on the text raw (util.ts 85-92)
ParseAndValidate(raw, wd) ==
  IF JSONparseThrows(raw) THEN Threw
  ELSE IF raw.version # CacheVersion THEN Null
  ELSE IF raw.workingDirectory # wd THEN Null
  ELSE IF ~raw.reposIsArray THEN Null
  ELSE [hit |-> TRUE, repos |-> raw.repos, threw |-> FALSE]

\* catch { return null; }
CatchNull(r) == IF r.threw THEN Null ELSE r

readIdeReposCache(wd) ==
  IF ~existsSyncCache THEN Null ELSE CatchNull(ParseAndValidate(cacheFile, wd))

\* The text writeFileSync stores: JSON.stringify(payload, null, 2)
writeIdeReposCache(wd, repos, now) ==
  [kind |-> "json", version |-> CacheVersion, workingDirectory |-> wd,
   updatedAt |-> now, reposIsArray |-> TRUE, repos |-> repos]

----------------------------------------------------------------------------
\* loadConfig (commands/ide/index.ts 29-63)

\* The value of a property an object does not have
Missing == "undefined"

\* The object {} read as a GitRepository
EmptyObject == [name |-> Missing, path |-> undefined,
                topLevelFolder |-> Missing]

\* The strings the model compares, in the order localeCompare gives them.
CollationOrder == <<"/", "a", "Ab", "b", "c", "d", "undefined", "work">>

\* The rank of a name under localeCompare; the empty name comes first.
Collation(name) ==
  IF name = "" THEN 0
  ELSE CHOOSE i \in 1..Len(CollationOrder) : CollationOrder[i] = name

\* a.name.localeCompare throws a TypeError when a has no name.  The sort
\* hands every element but the first to the comparator as a (it inserts the
\* elements one by one into the sorted front part), and an array of fewer
\* than two elements is never compared.
SortThrows(s) == \E i \in 2..Len(s) : s[i].name = Missing

\* a.name.localeCompare(b.name)
localeCompare(a, b) == Collation(a) - Collation(b)

\* One insertion of the stable sort: x goes behind every element that does
\* not compare greater than x.
RECURSIVE InsertByName(_, _)
InsertByName(x, s) ==
  IF s = <<>> THEN <<x>>
  ELSE IF localeCompare(Head(s).name, x.name) <= 0
       THEN <<Head(s)>> \o InsertByName(x, Tail(s))
       ELSE <<x>> \o s

\* Variant: the list is left in the order it was loaded in.
SortByNameSkipped(s) == s

\* autoDiscoveredRepos.sort((a, b) => a.name.localeCompare(b.name))
RECURSIVE SortByName(_)
SortByName(s) ==
  IF s = <<>> THEN <<>>
  ELSE InsertByName(s[Len(s)], SortByName(SubSeq(s, 1, Len(s) - 1)))

\* Variant: the working directory is taken to exist without a look.
existsSyncDirAlways(dir) == TRUE

\* existsSync(workingDirectory): stat needs the directories above it only.
existsSyncDir(dir) ==
  /\ dir \in fs.dirs
  /\ \A k \in 0..(Len(dir) - 1) : SubSeq(dir, 1, k) \notin fs.locked

\* new Error(`Working directory does not exist: ${workingDirectory}`)
WorkingDirectoryDoesNotExist(dir) ==
  [message |-> "Working directory does not exist: ", path |-> dir]

\* The TypeError of a.name.localeCompare when a has no name
TypeError ==
  [message |-> "TypeError: Cannot read properties of undefined",
   path |-> undefined]

\* The error loadConfig has thrown, if any: the message of line 38 is built
\* from the module variable assigned at line 34.
Thrown ==
  IF last.op = "loadConfig" /\ last.threw
  THEN IF last.typeError THEN TypeError
       ELSE WorkingDirectoryDoesNotExist(workingDirectory)
  ELSE NoError

\* Variant: the scan result is kept in memory but not written.
ScanAndWriteNoWrite(wd, now) ==
  [repos |-> findGitRepositories(wd).repos, file |-> cacheFile,
   wrote |-> FALSE, scanned |-> TRUE]

\* autoDiscoveredRepos = findGitRepositories(workingDirectory);
\* writeIdeReposCache(workingDirectory, autoDiscoveredRepos);
ScanAndWrite(wd, now) ==
  LET found == findGitRepositories(wd).repos
  IN [repos |-> found, file |-> writeIdeReposCache(wd, found, now),
      wrote |-> TRUE, scanned |-> TRUE]

\* Variant: an empty cached list counts as a miss.
CacheHitNonEmpty(cached) == cached.hit /\ cached.repos # <<>>

\* if (cached): an array, even an empty one, is truthy; null is not.
CacheHit(cached) == cached.hit

\* Variant: the refresh option is ignored.
LoadReposThroughCache(wd, refresh, now) ==
  LET cached == readIdeReposCache(wd)
  IN IF CacheHit(cached)
     THEN [miss |-> FALSE, repos |-> cached.repos, file |-> cacheFile,
           wrote |-> FALSE, scanned |-> FALSE]
     ELSE [miss |-> TRUE] @@ ScanAndWrite(wd, now)

\* The branches of loadConfig once the working directory exists (41-55)
LoadRepos(wd, refresh, now) ==
  IF refresh
  THEN [miss |-> FALSE] @@ ScanAndWrite(wd, now)
  ELSE LET cached == readIdeReposCache(wd)
       IN IF CacheHit(cached)
          THEN [miss |-> FALSE, repos |-> cached.repos, file |-> cacheFile,
                wrote |-> FALSE, scanned |-> FALSE]
          ELSE [miss |-> TRUE] @@ ScanAndWrite(wd, now)

\* The file holds a snapshot for wd that a scan of wd would not reproduce
\* (observation).
Stale(wd) ==
  /\ readIdeReposCache(wd).hit
  /\ readIdeReposCache(wd).repos # findGitRepositories(wd).repos

\* readConfig (util.ts 22-50) on a configuration file that exists: a
\* configuration with a working directory and no repos gets an empty map.
readConfig ==
  IF config.workingDirectory # undefined /\ ~config.repos.defined
  THEN [config EXCEPT !.repos = [defined |-> TRUE, categories |-> <<>>]]
  ELSE config

\* loadConfig in a process that has just started: the module variables
\* are as declared (index.ts 24-27) and loadConfig runs to its end.
loadConfigRun(refresh) ==
  \E now \in Times :
    LET wd == readConfig.workingDirectory
        again == /\ last.op = "loadConfig" /\ ~last.refresh /\ ~last.threw
                 /\ ~refresh
                 /\ workingDirectory = wd
    IN /\ IF wd = undefined
          THEN \* manual mode: reposConfig = config.repos
               /\ workingDirectory' = undefined
               /\ autoDiscoveredRepos' = <<>>
               /\ reposConfig' = readConfig.repos
               /\ last' = [op |-> "loadConfig", refresh |-> refresh,
                           miss |-> FALSE, scanned |-> FALSE, threw |-> FALSE,
                           again |-> FALSE, stale |-> FALSE,
                           typeError |-> FALSE]
               /\ UNCHANGED <<cacheFile, lastWrite>>
          ELSE IF ~existsSyncDir(wd)
          THEN \* throw new Error(`Working directory does not exist: ...`)
               /\ workingDirectory' = wd
               /\ autoDiscoveredRepos' = <<>>
               /\ reposConfig' = NoRepos
               /\ last' = [op |-> "loadConfig", refresh |-> refresh,
                           miss |-> FALSE, scanned |-> FALSE, threw |-> TRUE,
                           again |-> FALSE, stale |-> FALSE,
                           typeError |-> FALSE]
               /\ UNCHANGED <<cacheFile, lastWrite>>
          ELSE LET r == LoadRepos(wd, refresh, now)
               IN /\ workingDirectory' = wd
                  /\ reposConfig' = NoRepos
                  /\ autoDiscoveredRepos' = IF SortThrows(r.repos) THEN r.repos
                                            ELSE SortByName(r.repos)
                  /\ cacheFile' = r.file
                  /\ lastWrite' = IF r.wrote
                                  THEN [done |-> TRUE, workingDirectory |-> wd,
                                        repos |-> r.repos]
                                  ELSE lastWrite
                  /\ last' = [op |-> "loadConfig", refresh |-> refresh,
                              miss |-> r.miss, scanned |-> r.scanned,
                              threw |-> SortThrows(r.repos), again |-> again,
                              stale |-> Stale(wd),
                              typeError |-> SortThrows(r.repos)]
       /\ currentCategory' = NoCategory
       /\ UNCHANGED <<fs, readdirDesc, scan, config>>
       /\ UNCHANGED <<cloud, race>>

\* One invocation of the CLI that calls loadConfig and prints nothing.
LoadConfig(refresh) ==
  /\ loadConfigRun(refresh)
  /\ terminal' = Blank

\* The user edits ~/.ai/config.json.
SetConfig(wd) ==
  /\ wd \in WorkDirs \cup {undefined}
  /\ config.workingDirectory # wd
  /\ config' = [config EXCEPT !.workingDirectory = wd]
  /\ ProcessGone
  /\ UNCHANGED <<fs, readdirDesc, scan, cacheFile, lastWrite>>
  /\ UNCHANGED <<cloud, race>>

\* Somebody else changes the cache file: it is removed, overwritten with text
\* that is not JSON, replaced by a document of another schema version for the
\* same working directory, or by one whose repos is not an array.
Garbage == [NoFile EXCEPT !.kind = "garbage"]

OtherSchema(wd) ==
  [kind |-> "json", version |-> CacheVersion + 1, workingDirectory |-> wd,
   updatedAt |-> 0, reposIsArray |-> TRUE, repos |-> <<>>]

ReposNotArray(wd) ==
  [kind |-> "json", version |-> CacheVersion, workingDirectory |-> wd,
   updatedAt |-> 0, reposIsArray |-> FALSE, repos |-> <<>>]

DamageCache(how) ==
  /\ cacheFile.kind = "json"
  /\ cacheFile.version = CacheVersion /\ cacheFile.reposIsArray
  /\ \/ how = "remove" /\ cacheFile' = NoFile
     \/ how = "garbage" /\ cacheFile' = Garbage
     \/ how = "version" /\ cacheFile' = OtherSchema(cacheFile.workingDirectory)
     \/ how = "repos" /\ cacheFile' = ReposNotArray(cacheFile.workingDirectory)
  /\ lastWrite' = NoWrite
  /\ ProcessGone
  /\ UNCHANGED <<fs, readdirDesc, scan, config>>
  /\ UNCHANGED <<cloud, race>>

Init == InitScan

Next ==
  \/ \E p \in Paths : Mkdir(p)
  \/ \E p \in Paths : GitInit(p)
  \/ \E wd \in WorkDirs \cup {undefined} : SetConfig(wd)
  \/ \E how \in {"remove", "garbage", "version", "repos"} : DamageCache(how)
  \/ \E refresh \in BOOLEAN : LoadConfig(refresh)

Spec == Init /\ [][Next]_vars

----------------------------------------------------------------------------
\* The commands that open a project and refresh the cache
\* (commands/ide/index.ts 109-136, 298-326)

\* Text is a sequence of characters.  The characters of the names, of the
\* category names and of the words of JavaScript the model uses:
Chars(s) ==
  CASE s = "" -> <<>>
    [] s = "/" -> <<"/">>
    [] s = "a" -> <<"a">>
    [] s = "b" -> <<"b">>
    [] s = "c" -> <<"c">>
    [] s = "d" -> <<"d">>
    [] s = "Ab" -> <<"A", "b">>
    [] s = "work" -> <<"w", "o", "r", "k">>
    [] s = "undefined" -> <<"u", "n", "d", "e", "f", "i", "n", "e", "d">>

\* A path as the string the program holds: "/" and the components joined
\* by "/"; a path that is undefined prints as the word.
RECURSIVE PathText(_)
PathText(p) ==
  IF p = undefined THEN Chars("undefined")
  ELSE IF p = <<>> THEN <<"/">>
  ELSE IF Len(p) = 1 THEN <<"/">> \o Chars(p[1])
  ELSE PathText(SubSeq(p, 1, Len(p) - 1)) \o <<"/">> \o Chars(p[Len(p)])

\* `${repo.name} (${repo.path})`
DisplayWithPath(name, path) ==
  Chars(name) \o <<" ", "(">> \o PathText(path) \o <<")">>

\* `${name} (${category})`
DisplayWithCategory(name, category) ==
  Chars(name) \o <<" ", "(">> \o Chars(category) \o <<")">>

\* autoDiscoveredRepos.map(...) of getAllProjects (112-117)
AutoProjects(repos) ==
  [i \in 1..Len(repos) |->
     [category |-> repos[i].topLevelFolder, name |-> repos[i].name,
      path |-> repos[i].path,
      display |-> DisplayWithPath(repos[i].name, repos[i].path)]]

\* Object.entries(projects).map(...) for one category (127-134)
CategoryProjects(c) ==
  [i \in 1..Len(c.projects) |->
     [category |-> c.category, name |-> c.projects[i].name,
      path |-> c.projects[i].path,
      display |-> DisplayWithCategory(c.projects[i].name, c.category)]]

\* Object.entries(reposConfig).flatMap(...) (126-135)
RECURSIVE ManualProjects(_)
ManualProjects(categories) ==
  IF categories = <<>> THEN <<>>
  ELSE CategoryProjects(Head(categories)) \o ManualProjects(Tail(categories))

\* Variant: the projects of the configured category map are appended to
\* the discovered ones.
getAllProjectsMerged ==
  IF workingDirectory # undefined
  THEN AutoProjects(autoDiscoveredRepos)
         \o ManualProjects(config.repos.categories)
  ELSE IF ~reposConfig.defined THEN <<>>
  ELSE ManualProjects(reposConfig.categories)

getAllProjects ==
  IF workingDirectory # undefined THEN AutoProjects(autoDiscoveredRepos)
  ELSE IF ~reposConfig.defined THEN <<>>
  ELSE ManualProjects(reposConfig.categories)

\* String.prototype.toLowerCase, on the letters the model uses
LowerChar(c) ==
  CASE c = "A" -> "a"
    [] c = "B" -> "b"
    [] OTHER -> c

toLowerCase(t) == [i \in 1..Len(t) |-> LowerChar(t[i])]

\* A character that \s matches and trim removes
IsSpace(c) == c = " "

RECURSIVE trimStart(_)
trimStart(t) ==
  IF t # <<>> /\ IsSpace(Head(t)) THEN trimStart(Tail(t)) ELSE t

RECURSIVE trimEnd(_)
trimEnd(t) ==
  IF t # <<>> /\ IsSpace(t[Len(t)])
  THEN trimEnd(SubSeq(t, 1, Len(t) - 1))
  ELSE t

trim(t) == trimEnd(trimStart(t))

\* t.split(/\s+/): the pieces between the runs of white space; a run at an
\* end of t leaves an empty piece there, and the empty text gives [""].
RECURSIVE split(_)
split(t) ==
  IF \A i \in 1..Len(t) : ~IsSpace(t[i]) THEN <<t>>
  ELSE LET i == CHOOSE k \in 1..Len(t) :
                  IsSpace(t[k]) /\ \A m \in 1..(k - 1) : ~IsSpace(t[m])
           rest == trimStart(SubSeq(t, i, Len(t)))
       IN <<SubSeq(t, 1, i - 1)>> \o split(rest)

\* searchText.includes(keyword)
includes(text, keyword) ==
  \E i \in 0..(Len(text) - Len(keyword)) :
    SubSeq(text, i + 1, i + Len(keyword)) = keyword

\* `${project.name} ${project.category} ${project.path}`.toLowerCase()
searchText(project) ==
  toLowerCase(Chars(project.name) \o <<" ">> \o Chars(project.category)
                \o <<" ">> \o PathText(project.path))

\* Variant: one keyword that occurs is enough.
everyKeywordSome(project, keywords) ==
  \E k \in 1..Len(keywords) : includes(searchText(project), keywords[k])

\* keywords.every((keyword) => searchText.includes(keyword))
everyKeyword(project, keywords) ==
  \A k \in 1..Len(keywords) : includes(searchText(project), keywords[k])

\* The filter of searchAllProjects (142-150)
filteredProjects(allProjects, input) ==
  IF input # <<>>
  THEN LET keywords == split(trim(toLowerCase(input)))
       IN SelectSeq(allProjects, LAMBDA p : everyKeyword(p, keywords))
  ELSE allProjects

\* The value of a row that has none
NoProject == [category |-> "", name |-> "", path |-> undefined,
              display |-> <<>>]

Rule == <<"-", "-", "-", "-", "-", "-", "-", "-", "-">>

\* category === '/' ? '/ (root)' : category
categoryLabel(category) ==
  IF category = RootSentinel
  THEN <<"/", " ", "(", "r", "o", "o", "t", ")">>
  ELSE Chars(category)

\* { name: `---------  ${categoryLabel}  ---------`, disabled: 'separator' }
SeparatorRow(category) ==
  [name |-> Rule \o <<" ", " ">> \o categoryLabel(category) \o <<" ", " ">>
              \o Rule,
   disabled |-> "separator", hasValue |-> FALSE, value |-> NoProject]

\* { name: `  ${p.display}`, value: p }
IndentedRow(p) ==
  [name |-> <<" ", " ">> \o p.display, disabled |-> "", hasValue |-> TRUE,
   value |-> p]

\* { name: p.display, value: p }
PlainRow(p) ==
  [name |-> p.display, disabled |-> "", hasValue |-> TRUE, value |-> p]

\* Variant: every project adds a key, be its category there or not.
groupedKeysRepeated(projects) ==
  [i \in 1..Len(projects) |-> projects[i].category]

\* Array.from(grouped.keys()): the categories in the order in which the
\* list first shows them (176-182)
RECURSIVE groupedKeys(_)
groupedKeys(projects) ==
  IF projects = <<>> THEN <<>>
  ELSE LET front == groupedKeys(SubSeq(projects, 1, Len(projects) - 1))
           category == projects[Len(projects)].category
       IN IF \E i \in 1..Len(front) : front[i] = category
          THEN front
          ELSE Append(front, category)

\* Variant: a group lists its projects last to first.
groupedGetReversed(projects, category) ==
  LET group == SelectSeq(projects, LAMBDA p : p.category = category)
  IN [i \in 1..Len(group) |-> group[Len(group) + 1 - i]]

\* grouped.get(category)
groupedGet(projects, category) ==
  SelectSeq(projects, LAMBDA p : p.category = category)

\* The comparator of lines 185-189
compareCategories(a, b) ==
  IF a = RootSentinel THEN 1
  ELSE IF b = RootSentinel THEN 1
  ELSE localeCompare(a, b)

\* Array.prototype.sort on an array of fewer than 64 elements, as the V8
\* engine of Node.js runs it: it takes the longest run the array starts
\* with, reverses it if it descends, and inserts each later element into
\* the sorted front part by binary search.  The comparator is always
\* handed the later element first.
RECURSIVE CountRun(_, _, _)
CountRun(s, n, descending) ==
  IF n = Len(s) THEN n
  ELSE LET order == compareCategories(s[n + 1], s[n])
       IN IF (descending /\ order >= 0) \/ (~descending /\ order < 0)
          THEN n
          ELSE CountRun(s, n + 1, descending)

Reverse(s) == [i \in 1..Len(s) |-> s[Len(s) + 1 - i]]

RECURSIVE BinarySearch(_, _, _, _)
BinarySearch(s, pivot, left, right) ==
  IF left >= right THEN left
  ELSE LET mid == left + ((right - left) \div 2)
       IN IF compareCategories(pivot, s[mid]) < 0
          THEN BinarySearch(s, pivot, left, mid)
          ELSE BinarySearch(s, pivot, mid + 1, right)

RECURSIVE BinaryInsertionSort(_, _)
BinaryInsertionSort(s, start) ==
  IF start > Len(s) THEN s
  ELSE LET pivot == s[start]
           left == BinarySearch(s, pivot, 1, start)
       IN BinaryInsertionSort(SubSeq(s, 1, left - 1) \o <<pivot>>
                                \o SubSeq(s, left, start - 1)
                                \o SubSeq(s, start + 1, Len(s)),
                              start + 1)

sortedCategories(keys) ==
  IF Len(keys) < 2 THEN keys
  ELSE LET descending == compareCategories(keys[2], keys[1]) < 0
           run == CountRun(keys, 2, descending)
           made == IF descending
                   THEN Reverse(SubSeq(keys, 1, run))
                          \o SubSeq(keys, run + 1, Len(keys))
                   ELSE keys
       IN BinaryInsertionSort(made, run + 1)

\* Variant: a group shows its first project only.
CategoryRowsFirstOnly(projects, category) ==
  LET categoryProjects == groupedGet(projects, category)
  IN <<SeparatorRow(category), IndentedRow(categoryProjects[1])>>

\* The rows of one category: its separator and its projects (194-211)
CategoryRows(projects, category) ==
  LET categoryProjects == groupedGet(projects, category)
  IN <<SeparatorRow(category)>>
       \o [i \in 1..Len(categoryProjects) |->
             IndentedRow(categoryProjects[i])]

RECURSIVE ResultRows(_, _)
ResultRows(projects, categories) ==
  IF categories = <<>> THEN <<>>
  ELSE CategoryRows(projects, Head(categories))
         \o ResultRows(projects, Tail(categories))

formatProjectsWithSeparators(projects) ==
  ResultRows(projects, sortedCategories(groupedKeys(projects)))

\* What searchAllProjects makes of the catalog allProjects and the input
\* (142-158)
RowsFor(allProjects, input) ==
  LET filtered == filteredProjects(allProjects, input)
  IN IF workingDirectory # undefined
     THEN formatProjectsWithSeparators(filtered)
     ELSE [i \in 1..Len(filtered) |-> PlainRow(filtered[i])]

\* The entries of the rows on the screen
ShownProjects ==
  LET shown == SelectSeq(terminal.rows, LAMBDA r : r.hasValue)
  IN [i \in 1..Len(shown) |-> shown[i].value]

searchAllProjectsOfShown(input) ==
  RowsFor(IF terminal.listed THEN ShownProjects ELSE getAllProjects, input)

searchAllProjects(input) == RowsFor(getAllProjects, input)

\* The category maps a configuration may hold: none, or one category with
\* one project.
ManualMaps ==
  {NoRepos,
   [defined |-> TRUE,
    categories |-> <<[category |-> "work",
                      projects |-> <<[name |-> "a", path |-> <<"a">>]>>]>>]}

\* The user edits ~/.ai/config.json: the working directory, the category
\* map, or both.
EditConfig(wd, repos) ==
  /\ wd \in WorkDirs \cup {undefined}
  /\ repos \in ManualMaps
  /\ config # [workingDirectory |-> wd, repos |-> repos]
  /\ config' = [workingDirectory |-> wd, repos |-> repos]
  /\ ProcessGone
  /\ UNCHANGED <<fs, readdirDesc, scan, cacheFile, lastWrite>>
  /\ UNCHANGED <<cloud, race>>

\* git clone: a directory with a .git entry appears.
Clone(p) ==
  /\ p \in Paths /\ p \notin fs.dirs
  /\ Len(p) > 0 /\ Parent(p) \in fs.dirs
  /\ Cardinality(fs.dirs) <= MaxDirs
  /\ fs' = [fs EXCEPT !.dirs = @ \cup {p}, !.git = @ \cup {p}]
  /\ scan' = NoScan
  /\ ProcessGone
  /\ UNCHANGED <<readdirDesc, config, cacheFile, lastWrite>>
  /\ UNCHANGED <<cloud, race>>

\* Somebody else replaces the elements of the repos array of a snapshot by
\* empty objects.
CorruptElements ==
  /\ cacheFile.kind = "json"
  /\ cacheFile.version = CacheVersion /\ cacheFile.reposIsArray
  /\ cacheFile.repos # <<>>
  /\ \A i \in 1..Len(cacheFile.repos) : cacheFile.repos[i] # EmptyObject
  /\ cacheFile' = [cacheFile EXCEPT
                     !.repos = [i \in 1..Len(cacheFile.repos) |-> EmptyObject],
                     !.updatedAt = 0]
  /\ lastWrite' = NoWrite
  /\ ProcessGone
  /\ UNCHANGED <<fs, readdirDesc, scan, config>>
  /\ UNCHANGED <<cloud, race>>

\* The editors the CLI has a command for (ai-summon.ts 24-29, 37-42)
IdeTypes == {"cursor", "claude"}

\* console.error(chalk.red(`Error opening project in ${ideType}:`, error))
ErrorOpeningProject(ideType, error) ==
  [Blank EXCEPT !.error = error, !.printed = "Error opening project in",
                !.ideType = ideType]

\* The prompt of selectProjectWithFuzzySearch, whose source will list the
\* catalog, or the first prompt of selectProjectWithTwoStep, which lists
\* categories; the rows come with the calls of the source.
Prompt(fuzzy, projects) ==
  [Blank EXCEPT !.picker = IF fuzzy THEN "fuzzy" ELSE "twoStep",
                !.projects = IF fuzzy THEN projects ELSE <<>>,
                !.step = IF fuzzy THEN "project" ELSE "category"]

FuzzySearchOnKeywordOnly(wd, searchMode) == searchMode

\* workingDirectory || searchMode !== undefined (304)
FuzzySearch(wd, searchMode) == wd # undefined \/ searchMode

\* openIDE up to the prompt (298-306, 314-316); searchMode tells whether
\* the command line held a search word.
OpenIDE(ideType, searchMode) ==
  /\ loadConfigRun(FALSE)
  /\ terminal' =
       IF last'.threw THEN ErrorOpeningProject(ideType, Thrown')
       ELSE [Prompt(FuzzySearch(workingDirectory', searchMode),
                    getAllProjects')
               EXCEPT !.ideType = ideType, !.searchMode = searchMode]

RefreshReportAlwaysDone(wd) == "IDE repository cache refreshed."

\* What refreshIdeReposCache prints after loadConfig has returned (321-325)
RefreshReport(wd) ==
  IF wd = undefined
  THEN "No workingDirectory configured; nothing to refresh."
  ELSE "IDE repository cache refreshed."

\* refreshIdeReposCache (319-326): an error of loadConfig is not caught.
RefreshIdeReposCache ==
  /\ loadConfigRun(TRUE)
  /\ terminal' =
       IF last'.threw
       THEN [Blank EXCEPT !.error = Thrown', !.uncaught = TRUE]
       ELSE [Blank EXCEPT !.printed = RefreshReport(workingDirectory')]

NextOpen ==
  \/ \E p \in Paths : Clone(p)
  \/ \E p \in WorkDirs : Chmod000(p)
  \/ \E wd \in WorkDirs \cup {undefined}, repos \in ManualMaps :
       EditConfig(wd, repos)
  \/ \E how \in {"remove", "garbage", "version", "repos"} : DamageCache(how)
  \/ CorruptElements
  \/ \E searchMode \in BOOLEAN : OpenIDE("cursor", searchMode)
  \/ RefreshIdeReposCache

SpecOpen == Init /\ [][NextOpen]_vars

----------------------------------------------------------------------------
\* The prompts of selectProjectWithFuzzySearch (216-234) and of
\* selectProjectWithTwoStep (237-263): an autocomplete prompt calls its
\* source once with no input when it opens and again with the whole input
\* after every key; the user chooses one of the rows that are not disabled,
\* or aborts the prompt.

\* The longest input the user types
MaxInput == 3

\* The keys the user presses
Keys == {"a", "B", " "}

\* A choice that is a string: its name and its value are the string.
StringRow(s) ==
  [name |-> Chars(s), disabled |-> "", hasValue |-> TRUE,
   value |-> [NoProject EXCEPT !.name = s]]

\* Object.keys(reposConfig) (69)
Categories ==
  [i \in 1..Len(reposConfig.categories) |->
     reposConfig.categories[i].category]

\* searchCategories (65-76), reposConfig being defined
searchCategories(input) ==
  IF input = <<>> THEN Categories
  ELSE SelectSeq(Categories,
                 LAMBDA category :
                   includes(toLowerCase(Chars(category)),
                            toLowerCase(input)))

\* reposConfig[currentCategory] is there (83)
HasCurrentCategory ==
  /\ currentCategory # NoCategory
  /\ \E i \in 1..Len(reposConfig.categories) :
       reposConfig.categories[i].category = currentCategory

\* Object.entries(reposConfig[currentCategory]) (87)
CurrentProjects ==
  reposConfig.categories[
    CHOOSE i \in 1..Len(reposConfig.categories) :
      reposConfig.categories[i].category = currentCategory].projects

\* searchProjects (78-106), reposConfig being defined
searchProjects(input) ==
  IF ~HasCurrentCategory THEN <<>>
  ELSE LET searchTerm == toLowerCase(input)
           found ==
             IF input = <<>> THEN CurrentProjects
             ELSE SelectSeq(CurrentProjects,
                            LAMBDA project :
                              \/ includes(toLowerCase(Chars(project.name)),
                                          searchTerm)
                              \/ includes(toLowerCase(PathText(project.path)),
                                          searchTerm))
       IN [i \in 1..Len(found) |-> found[i].name]

\* The source of the prompt that is open
Source(input) ==
  IF terminal.picker = "fuzzy" THEN searchAllProjects(input)
  ELSE LET names == IF terminal.step = "category"
                    THEN searchCategories(input)
                    ELSE searchProjects(input)
       IN [i \in 1..Len(names) |-> StringRow(names[i])]

\* A prompt is open and its source returns: Object.keys(reposConfig) of
\* searchCategories throws when the configuration holds no category map.
PromptOpen ==
  /\ terminal.step \in {"category", "project"}
  /\ terminal.picker = "twoStep" => reposConfig.defined

\* The rows bring back an entry that the rows on the screen had lost
\* (observation: regrew records that this has happened at this prompt).
Regrows(rows) ==
  /\ terminal.listed
  /\ \E i \in 1..Len(rows) :
       /\ rows[i].hasValue
       /\ \A j \in 1..Len(terminal.rows) :
            terminal.rows[j].hasValue
              => terminal.rows[j].value # rows[i].value

\* source(answers, undefined): the parameter default makes the input ''.
ListAll ==
  /\ PromptOpen /\ ~terminal.listed
  /\ terminal' = [terminal EXCEPT !.listed = TRUE, !.rows = Source(<<>>)]
  /\ UNCHANGED <<fs, readdirDesc, scan, config, cacheFile, workingDirectory,
                 autoDiscoveredRepos, reposConfig, currentCategory, last,
                 lastWrite>>
  /\ UNCHANGED <<cloud, race>>

\* source(answers, input) after the key c
Key(c) ==
  /\ PromptOpen /\ terminal.listed
  /\ Len(terminal.input) < MaxInput
  /\ LET rows == Source(Append(terminal.input, c))
     IN terminal' = [terminal EXCEPT
                       !.input = Append(@, c),
                       !.rows = rows,
                       !.regrew = @ \/ Regrows(rows)]
  /\ UNCHANGED <<fs, readdirDesc, scan, config, cacheFile, workingDirectory,
                 autoDiscoveredRepos, reposConfig, currentCategory, last,
                 lastWrite>>
  /\ UNCHANGED <<cloud, race>>

\* source(answers, input) after the last character was deleted
Backspace ==
  /\ PromptOpen /\ terminal.listed
  /\ terminal.input # <<>>
  /\ LET input == SubSeq(terminal.input, 1, Len(terminal.input) - 1)
         rows == Source(input)
     IN terminal' = [terminal EXCEPT !.input = input,
                                     !.rows = rows,
                                     !.regrew = @ \/ Regrows(rows)]
  /\ UNCHANGED <<fs, readdirDesc, scan, config, cacheFile, workingDirectory,
                 autoDiscoveredRepos, reposConfig, currentCategory, last,
                 lastWrite>>
  /\ UNCHANGED <<cloud, race>>

RealChoicesWithSeparators == terminal.rows

\* The rows the user can move to: inquirer skips the rows that are
\* disabled.
RealChoices == SelectSeq(terminal.rows, LAMBDA r : r.disabled = "")

\* What selectProjectWithFuzzySearch (230-233) or selectProjectWithTwoStep
\* (259-262) returns when the user has chosen the row with that value
Project(value) ==
  IF terminal.picker = "fuzzy"
  THEN [path |-> value.path, name |-> value.name]
  ELSE [path |-> (CHOOSE p \in {CurrentProjects[i] :
                                  i \in 1..Len(CurrentProjects)} :
                    p.name = value.name).path,
        name |-> value.name]

\* The exit codes of the editor's command
ExitCodes == {0, 1}

\* The prompt has closed and its rows are off the screen.
Closed ==
  [terminal EXCEPT !.listed = FALSE, !.input = <<>>, !.rows = <<>>,
                   !.regrew = FALSE]

\* openIDE after the prompt (308-316): launchClaude (266-286) or launchIDE
\* (289-296) runs the command, and a command that fails lands in the catch.
Launched(project, code) ==
  [Closed EXCEPT
     !.step = "closed",
     !.launched = IF terminal.ideType = "claude"
                  THEN [via |-> "claude", path |-> project.path,
                        name |-> ""]
                  ELSE [via |-> "open -a Cursor", path |-> project.path,
                        name |-> project.name],
     !.error = IF code = 0 THEN NoError
               ELSE [message |-> "exited with code", path |-> undefined],
     !.printed = IF code = 0 THEN "" ELSE "Error opening project in"]

\* The user presses Enter on the i-th of the rows that can be chosen; code
\* is what the editor's command exits with when this launches it.
Select(i, code) ==
  /\ PromptOpen /\ terminal.listed
  /\ i \in 1..Len(RealChoices)
  /\ code \in ExitCodes
  /\ IF terminal.picker = "twoStep" /\ terminal.step = "category"
     THEN \* currentCategory = categoryAnswer.category (248), next prompt
          /\ code = 0
          /\ currentCategory' = RealChoices[i].value.name
          /\ terminal' = [Closed EXCEPT !.step = "project"]
     ELSE /\ terminal' = Launched(Project(RealChoices[i].value), code)
          /\ UNCHANGED currentCategory
  /\ UNCHANGED <<fs, readdirDesc, scan, config, cacheFile, workingDirectory,
                 autoDiscoveredRepos, reposConfig, last, lastWrite>>
  /\ UNCHANGED <<cloud, race>>

\* What Ctrl-C at a prompt does is up to the inquirer the build installs:
\* it sends the process SIGINT, which ends it, or it rejects the promise
\* of inquirer.prompt.
AbortOutcomes == {"killed", "rejected"}

\* The user aborts the prompt.  A rejected promise lands in the catch of
\* openIDE (314-316).
Abort(outcome) ==
  /\ PromptOpen
  /\ outcome \in AbortOutcomes
  /\ terminal' =
       IF outcome = "killed"
       THEN [Closed EXCEPT !.step = "killed", !.aborted = TRUE]
       ELSE [Closed EXCEPT
               !.step = "closed", !.aborted = TRUE,
               !.error = [message |-> "User force closed the prompt",
                          path |-> undefined],
               !.printed = "Error opening project in"]
  /\ UNCHANGED <<fs, readdirDesc, scan, config, cacheFile, workingDirectory,
                 autoDiscoveredRepos, reposConfig, currentCategory, last,
                 lastWrite>>
  /\ UNCHANGED <<cloud, race>>

\* Repositories a snapshot may list, in the order it lists them
SnapshotRepos ==
  <<[name |-> "c", path |-> <<"a", "c">>, topLevelFolder |-> "a"],
    [name |-> "a", path |-> <<"b", "a">>, topLevelFolder |-> "b"],
    [name |-> "b", path |-> <<"b">>, topLevelFolder |-> RootSentinel],
    [name |-> "Ab", path |-> <<"a", "Ab">>, topLevelFolder |-> "a"]>>

\* The snapshots for "/" an earlier run or another program has left
Snapshots ==
  {writeIdeReposCache(<<>>,
                      SelectSeq(SnapshotRepos, LAMBDA r : r \in some), 0) :
     some \in SUBSET {SnapshotRepos[i] : i \in 1..Len(SnapshotRepos)}}

\* The category maps of the configurations without a working directory
SearchMaps ==
  {[defined |-> TRUE,
    categories |-> <<[category |-> "work",
                      projects |-> <<[name |-> "a", path |-> <<"a">>]>>]>>],
   [defined |-> TRUE,
    categories |-> <<[category |-> "work",
                      projects |-> <<[name |-> "b", path |-> <<"b">>],
                                     [name |-> "Ab",
                                      path |-> <<"a", "Ab">>]>>],
                     [category |-> "a",
                      projects |-> <<[name |-> "c",
                                      path |-> <<"a", "c">>]>>]>>]}

\* No command has run yet: the configuration names "/" and the cache file
\* holds a snapshot for it, or the configuration holds a category map and
\* there is no cache file.
InitSearch ==
  /\ fs = InitFs
  /\ readdirDesc = FALSE
  /\ scan = NoScan
  /\ \/ /\ config = [workingDirectory |-> <<>>, repos |-> NoRepos]
        /\ cacheFile \in Snapshots
        /\ lastWrite = [done |-> TRUE, workingDirectory |-> <<>>,
                        repos |-> cacheFile.repos]
     \/ /\ config \in {[workingDirectory |-> undefined, repos |-> m] :
                          m \in SearchMaps}
        /\ cacheFile = NoFile
        /\ lastWrite = NoWrite
  /\ workingDirectory = undefined
  /\ autoDiscoveredRepos = <<>>
  /\ reposConfig = NoRepos
  /\ currentCategory = NoCategory
  /\ last = EnvOp
  /\ terminal = Blank
  /\ cloud = NoCloud
  /\ race = NoRace

NextSearch ==
  \/ \E ideType \in IdeTypes, searchMode \in BOOLEAN :
       OpenIDE(ideType, searchMode)
  \/ ListAll
  \/ \E c \in Keys : Key(c)
  \/ Backspace
  \/ \E i \in 1..Len(RealChoices), code \in ExitCodes : Select(i, code)
  \/ \E outcome \in AbortOutcomes : Abort(outcome)

SpecSearch == InitSearch /\ [][NextSearch]_vars

----------------------------------------------------------------------------
\* The cloud commands (commands/cloud.ts 108-306): cloudLogin and cloudScp
\* run up to a prompt, go on when the user has answered it, and end by
\* returning or by process.exit(1) in their catch.

\* type Environment (types/index.ts 35)
Environments == {"dev", "staging", "prod"}

\* The service names of the command line; "" is an argument left out.
ServiceArgs == {"", "api", "web"}

\* The yiren sections the configuration may hold: the services in the
\* order of Object.keys, each with the environments it configures.
Yirens ==
  {<<>>,
   <<[service |-> "api", envs |-> <<>>]>>,
   <<[service |-> "api", envs |-> <<"dev", "prod">>]>>,
   <<[service |-> "api", envs |-> <<"prod">>],
     [service |-> "web", envs |-> <<"dev", "staging">>]>>}

\* What stat says about the local path of cloudScp (84-106)
LocalPaths == {"file", "directory", "missing", "denied"}

\* config.yiren[service] is there (130-131, 216-217)
HasService(c) ==
  \E i \in 1..Len(c.yiren) : c.yiren[i].service = c.service

\* Object.keys(serviceConfig) (141, 227)
availableEnvironments(c) ==
  c.yiren[CHOOSE i \in 1..Len(c.yiren) : c.yiren[i].service = c.service].envs

\* serviceConfig[env] is there (152-153, 238-239)
HasEnvironment(c) ==
  \E j \in 1..Len(availableEnvironments(c)) :
    availableEnvironments(c)[j] = c.env

\* console.error or console.log of the message, then return
CloudReturn(c, message) == [c EXCEPT !.pc = "returned", !.printed = message]

\* catch (error): handleSSHError(error); process.exit(1) (187-190, 302-305)
ProcessExit(c) ==
  [c EXCEPT !.pc = "exited", !.printed = "SSH connection failed",
            !.exitCode = 1]

\* The ssh command of cloudLogin (184-186) or the scp command of cloudScp
\* (291-301); fails tells whether the command exits with an error.
Execute(c, fails) ==
  LET ran == [c EXCEPT !.executed =
                [program |-> IF c.command = "cloudLogin" THEN "ssh"
                             ELSE "scp",
                 service |-> c.service, env |-> c.env,
                 recursive |-> c.isDirectory]]
  IN IF fails THEN ProcessExit(ran)
     ELSE CloudReturn(ran, IF c.command = "cloudLogin" THEN "Connecting to"
                           ELSE "Successfully copied to")

ProductionConfirmationSkipped(c, fails) == Execute(c, fails)

\* if (env === 'prod') { inquirer.prompt([{ type: 'confirm', ... }]) }
\* (165-175, 271-281)
ProductionConfirmation(c, fails) ==
  IF c.env = "prod"
  THEN [c EXCEPT !.pc = "confirm", !.confirmShown = TRUE]
  ELSE Execute(c, fails)

\* validatePrivateKey (10-29, 163, 269) throws when the file is not found.
ValidateKey(c, fails) ==
  IF ~c.keyFound THEN ProcessExit(c)
  ELSE ProductionConfirmation(c, fails)

\* (151-160, 237-246)
ValidateEnvironment(c, fails) ==
  IF ~HasEnvironment(c)
  THEN CloudReturn(c, "Environment not configured for service")
  ELSE ValidateKey(c, fails)

\* (139-149, 224-235)
SelectEnvironment(c, fails) ==
  IF c.env = ""
  THEN IF availableEnvironments(c) = <<>>
       THEN CloudReturn(c, "No environments configured for service")
       ELSE [c EXCEPT !.pc = "environment"]
  ELSE ValidateEnvironment(c, fails)

\* (129-137, 215-222)
ValidateService(c, fails) ==
  IF ~HasService(c)
  THEN CloudReturn(c, "Service not found in configuration")
  ELSE SelectEnvironment(c, fails)

\* (113-127, 197-213)
SelectService(c, fails) ==
  IF c.yiren = <<>>
  THEN CloudReturn(c, "No cloud services configured in yiren section")
  ELSE IF c.service = "" THEN [c EXCEPT !.pc = "service"]
  ELSE ValidateService(c, fails)

\* The variables of the other commands
IdeVars == <<fs, readdirDesc, scan, config, cacheFile, workingDirectory,
             autoDiscoveredRepos, reposConfig, currentCategory, last,
             lastWrite, terminal>>

\* No cloud command is running.
CloudIdle == cloud.pc \in {"idle", "returned", "exited", "killed"}

\* A cloud command that has just been started
CloudRun(command, env, service) ==
  [NoCloud EXCEPT !.yiren = cloud.yiren, !.keyFound = cloud.keyFound,
                  !.command = command, !.env = env, !.service = service]

\* The user edits the yiren section, or the private key file comes or goes.
ConfigureCloud(yiren, keyFound) ==
  /\ CloudIdle
  /\ yiren \in Yirens /\ keyFound \in BOOLEAN
  /\ <<yiren, keyFound>> # <<cloud.yiren, cloud.keyFound>>
  /\ cloud' = [NoCloud EXCEPT !.yiren = yiren, !.keyFound = keyFound]
  /\ UNCHANGED <<IdeVars, race>>

\* cloudLogin(env, service) up to its first prompt or to its end (108-191)
CloudLogin(env, service, fails) ==
  /\ CloudIdle
  /\ cloud' = SelectService(CloudRun("cloudLogin", env, service), fails)
  /\ UNCHANGED <<IdeVars, race>>

\* cloudScp(localPath, remotePath, options) up to its first prompt or to
\* its end (193-306)
CloudScp(localPath, recursive, env, service, fails) ==
  /\ CloudIdle
  /\ LET c == [CloudRun("cloudScp", env, service)
                EXCEPT !.isDirectory = localPath = "directory"]
     IN cloud' =
          IF localPath = "denied" THEN ProcessExit(c)
          ELSE IF localPath = "missing"
          THEN CloudReturn(c, "Local path not found")
          ELSE IF localPath = "directory" /\ ~recursive
          THEN CloudReturn(c, "Cannot copy directory without -r flag")
          ELSE SelectService(c, fails)
  /\ UNCHANGED <<IdeVars, race>>

\* The user chooses a service at promptForService (52-65).
AnswerService(i, fails) ==
  /\ cloud.pc = "service"
  /\ i \in 1..Len(cloud.yiren)
  /\ cloud' = ValidateService([cloud EXCEPT !.service = cloud.yiren[i].service],
                              fails)
  /\ UNCHANGED <<IdeVars, race>>

\* The user chooses an environment at promptForEnvironment (68-82).
AnswerEnvironment(j, fails) ==
  /\ cloud.pc = "environment"
  /\ j \in 1..Len(availableEnvironments(cloud))
  /\ cloud' = ValidateEnvironment(
                [cloud EXCEPT !.env = availableEnvironments(cloud)[j]], fails)
  /\ UNCHANGED <<IdeVars, race>>

\* The user answers the production confirmation (177-180, 283-286).
AnswerConfirmation(confirmProduction, fails) ==
  /\ cloud.pc = "confirm"
  /\ cloud' =
       IF confirmProduction
       THEN Execute([cloud EXCEPT !.confirmProduction = TRUE], fails)
       ELSE CloudReturn(cloud, IF cloud.command = "cloudLogin"
                               THEN "Production connection cancelled."
                               ELSE "Production operation cancelled.")
  /\ UNCHANGED <<IdeVars, race>>

\* The user aborts a prompt: the process ends at once, or the rejected
\* promise lands in the catch.
AbortCloud(outcome) ==
  /\ cloud.pc \in {"service", "environment", "confirm"}
  /\ outcome \in AbortOutcomes
  /\ cloud' = IF outcome = "killed" THEN [cloud EXCEPT !.pc = "killed"]
              ELSE ProcessExit(cloud)
  /\ UNCHANGED <<IdeVars, race>>

InitCloud ==
  /\ fs = InitFs
  /\ readdirDesc = FALSE
  /\ scan = NoScan
  /\ config = [workingDirectory |-> undefined, repos |-> NoRepos]
  /\ cacheFile = NoFile
  /\ workingDirectory = undefined
  /\ autoDiscoveredRepos = <<>>
  /\ reposConfig = NoRepos
  /\ currentCategory = NoCategory
  /\ last = EnvOp
  /\ lastWrite = NoWrite
  /\ terminal = Blank
  /\ cloud = NoCloud
  /\ race = NoRace

NextCloud ==
  \/ \E yiren \in Yirens, keyFound \in BOOLEAN : ConfigureCloud(yiren, keyFound)
  \/ \E env \in Environments \cup {""}, service \in ServiceArgs,
        fails \in BOOLEAN :
       CloudLogin(env, service, fails)
  \/ \E localPath \in LocalPaths, recursive \in BOOLEAN,
        env \in Environments \cup {""}, service \in ServiceArgs,
        fails \in BOOLEAN :
       CloudScp(localPath, recursive, env, service, fails)
  \/ \E i \in 1..Len(cloud.yiren), fails \in BOOLEAN : AnswerService(i, fails)
  \/ /\ cloud.pc = "environment"
     /\ \E j \in 1..Len(availableEnvironments(cloud)), fails \in BOOLEAN :
          AnswerEnvironment(j, fails)
  \/ \E confirmProduction \in BOOLEAN, fails \in BOOLEAN :
       AnswerConfirmation(confirmProduction, fails)
  \/ \E outcome \in AbortOutcomes : AbortCloud(outcome)

SpecCloud == InitCloud /\ [][NextCloud]_vars

----------------------------------------------------------------------------
\* Two invocations at the same time (util.ts 80-107, index.ts 40-55): each
\* process runs loadConfig under the same working directory, and the system
\* calls of the two interleave.  writeFileSync opens the cache file with
\* O_TRUNC, which empties it, and then writes its text from offset 0; the
\* write does not cut off what the file holds behind the text.

\* The length of the elements of repos in JSON.stringify(payload, null, 2)
RECURSIVE ReposTextLength(_)
ReposTextLength(repos) ==
  IF repos = <<>> THEN 0
  ELSE LET r == Head(repos)
       IN 6 + (18 + Len(Chars(r.name))) + (18 + Len(PathText(r.path)))
            + (27 + Len(Chars(r.topLevelFolder))) + 5
            + (IF Tail(repos) = <<>> THEN 1 ELSE 2)
            + ReposTextLength(Tail(repos))

\* The length of JSON.stringify(payload, null, 2) (util.ts 100-106); the
\* time stamp of Date.now() has 13 digits.
TextLength(payload) ==
  2 + 16 + (26 + Len(PathText(payload.workingDirectory))) + 30
    + (IF payload.repos = <<>> THEN 15
       ELSE 13 + ReposTextLength(payload.repos) + 3 + 1)

\* The process p
Proc(p) == race.proc[p]

\* A process starts loadConfig; the working directory exists (32-38).
Start(p, refresh) ==
  /\ Proc(p).pc \in {"idle", "done"}
  /\ config.workingDirectory # undefined
  /\ existsSyncDir(config.workingDirectory)
  /\ race' = [race EXCEPT !.proc[p] =
                [IdleProc EXCEPT !.pc = IF refresh THEN "scan" ELSE "read",
                                 !.refresh = refresh]]
  /\ UNCHANGED <<IdeVars, cloud>>

\* const cached = readIdeReposCache(workingDirectory); if (cached) (46-48)
ReadCache(p) ==
  /\ Proc(p).pc = "read"
  /\ LET cached == readIdeReposCache(config.workingDirectory)
     IN race' = [race EXCEPT !.proc[p] =
                   IF CacheHit(cached)
                   THEN [@ EXCEPT !.pc = "done", !.hit = TRUE,
                                  !.repos = cached.repos]
                   ELSE [@ EXCEPT !.pc = "scan"]]
  /\ UNCHANGED <<IdeVars, cloud>>

\* autoDiscoveredRepos = findGitRepositories(workingDirectory) (42, 51)
ScanStep(p) ==
  /\ Proc(p).pc = "scan"
  /\ race' = [race EXCEPT !.proc[p] =
                [@ EXCEPT !.pc = "open",
                          !.repos =
                            findGitRepositories(config.workingDirectory).repos]]
  /\ UNCHANGED <<IdeVars, cloud>>

\* writeFileSync (106) opens the file: it is empty now.
OpenTruncate(p) ==
  /\ Proc(p).pc = "open"
  /\ cacheFile' = Garbage
  /\ race' = [race EXCEPT !.proc[p].pc = "write", !.length = 0]
  /\ UNCHANGED <<fs, readdirDesc, scan, config, workingDirectory,
                 autoDiscoveredRepos, reposConfig, currentCategory, last,
                 lastWrite, terminal, cloud>>

\* writeFileSync (106) writes its text from offset 0 and closes the file:
\* a file that is longer than the text keeps its tail, and the text with
\* this tail is not a JSON document.  lastWrite is the call that was
\* the last to return.
WriteText(p, now) ==
  /\ Proc(p).pc = "write"
  /\ now \in Times
  /\ LET payload == writeIdeReposCache(config.workingDirectory,
                                       Proc(p).repos, now)
     IN IF race.length <= TextLength(payload)
        THEN /\ cacheFile' = payload
             /\ race' = [race EXCEPT !.proc[p].pc = "done",
                                     !.length = TextLength(payload)]
        ELSE /\ cacheFile' = Garbage
             /\ race' = [race EXCEPT !.proc[p].pc = "done"]
  /\ lastWrite' = [done |-> TRUE, workingDirectory |-> config.workingDirectory,
                   repos |-> Proc(p).repos]
  /\ UNCHANGED <<fs, readdirDesc, scan, config, workingDirectory,
                 autoDiscoveredRepos, reposConfig, currentCategory, last,
                 terminal, cloud>>

\* The configuration names "/" and there is no cache file.
InitRace ==
  /\ fs = InitFs
  /\ readdirDesc = FALSE
  /\ scan = NoScan
  /\ config = [workingDirectory |-> <<>>, repos |-> NoRepos]
  /\ cacheFile = NoFile
  /\ workingDirectory = undefined
  /\ autoDiscoveredRepos = <<>>
  /\ reposConfig = NoRepos
  /\ currentCategory = NoCategory
  /\ last = EnvOp
  /\ lastWrite = NoWrite
  /\ terminal = Blank
  /\ cloud = NoCloud
  /\ race = NoRace

NextRace ==
  \/ \E d \in Paths : Clone(d)
  \/ \E p \in Procs, refresh \in BOOLEAN : Start(p, refresh)
  \/ \E p \in Procs : ReadCache(p)
  \/ \E p \in Procs : ScanStep(p)
  \/ \E p \in Procs : OpenTruncate(p)
  \/ \E p \in Procs, now \in Times : WriteText(p, now)

SpecRace == InitRace /\ [][NextRace]_vars

----------------------------------------------------------------------------
\* Properties of the scanner

Returned == scan.state = "returned"
ScanPaths == {scan.repos[i].path : i \in 1..Len(scan.repos)}

\* Every directory from root down to d (both included) can be accessed.
ReadablePath(root, d) ==
  /\ IsPrefix(root, d)
  /\ \A k \in Len(root)..Len(d) : Accessible(SubSeq(d, 1, k))

\* d holds .git and no directory from root down to its parent does.
Outermost(root, d) ==
  /\ IsPrefix(root, d)
  /\ d \in fs.dirs /\ d \in fs.git
  /\ \A k \in Len(root)..(Len(d) - 1) : SubSeq(d, 1, k) \notin fs.git

\* C1: stopping rule. No entry of a scan result has a path that is a strict
\* descendant of the path of another entry of the same result.
C1_StoppingRule ==
  Returned =>
    \A i, j \in 1..Len(scan.repos) :
      ~IsStrictPrefix(scan.repos[i].path, scan.repos[j].path)

\* A reported repository holds a nested repository that is not reported.
C1_Witness ==
  /\ Returned
  /\ \E i \in 1..Len(scan.repos) : \E p \in fs.git :
       /\ Accessible(p)
       /\ IsStrictPrefix(scan.repos[i].path, p)

\* C2: completeness. Among the directories reachable from the root through
\* readable directories, the reported paths are exactly those that hold .git
\* and have no ancestor at or below the root holding .git; and every reported
\* path is such an outermost repository at or beneath the root.
C2_Complete ==
  Returned =>
    /\ \A d \in Paths :
         ReadablePath(scan.root, d) =>
           (d \in ScanPaths <=> Outermost(scan.root, d))
    /\ \A d \in ScanPaths : Outermost(scan.root, d)

\* In a tree where every directory is readable, a repository two levels
\* below the root is reported: the walk went through a directory without .git.
C2_Witness ==
  /\ Returned
  /\ fs.locked = {}
  /\ \E d \in ScanPaths : Len(d) = Len(scan.root) + 2

\* C3: uniqueness. No two entries of a scan result share a path.
C3_UniquePaths ==
  Returned =>
    \A i, j \in 1..Len(scan.repos) :
      i # j => scan.repos[i].path # scan.repos[j].path

\* A scan reported two repositories.
C3_Witness == Returned /\ Len(scan.repos) >= 2

C5_DirectChildSentinel ==
  Returned =>
    \A i \in 1..Len(scan.repos) :
      LET r == scan.repos[i]
      IN IF Len(r.path) <= Len(scan.root) + 1
         THEN r.topLevelFolder = RootSentinel
         ELSE r.topLevelFolder = r.path[Len(scan.root) + 1]

\* C6: a scan raises no error, reports nothing at or under a directory that
\* cannot be read, and still reports every outermost repository that is
\* reachable through readable directories.
C6_ObstaclesIsolated ==
  Returned =>
    /\ ~scan.threw
    /\ \A b \in fs.locked :
         IsPrefix(scan.root, b) => \A d \in ScanPaths : ~IsPrefix(b, d)
    /\ \A d \in Paths :
         (ReadablePath(scan.root, d) /\ Outermost(scan.root, d))
           => d \in ScanPaths

\* Root / with a/.git and an unreadable b that is listed before a: exactly a
\* is reported.
C6_Witness ==
  /\ Returned
  /\ scan.root = <<>>
  /\ readdirDesc
  /\ <<"b">> \in fs.locked
  /\ ScanPaths = {<<"a">>}

----------------------------------------------------------------------------
\* Properties of the cache and of loadConfig

\* The file holds a snapshot (a JSON document whose repos is an array) with
\* the current schema version, recorded for wd.
SnapshotFor(wd) ==
  /\ cacheFile.kind = "json"
  /\ cacheFile.reposIsArray
  /\ cacheFile.version = CacheVersion
  /\ cacheFile.workingDirectory = wd

\* C7: readIdeReposCache(wd) returns the cached list if and only if a
\* snapshot exists with the current version and exactly wd as its working
\* directory; otherwise it returns null; it never raises; and changing
\* updatedAt alone never changes what it returns.
C7_ReadIffValid ==
  \A wd \in WorkDirs :
    LET r == readIdeReposCache(wd)
    IN /\ ~r.threw
       /\ r.hit <=> SnapshotFor(wd)
       /\ r.hit => r.repos = cacheFile.repos
       /\ ~r.hit => r = Null
       /\ \A t \in Times :
            existsSyncCache =>
              CatchNull(ParseAndValidate([cacheFile EXCEPT !.updatedAt = t],
                                         wd)) = r

\* loadConfig was served from a snapshot that holds repositories and does
\* not bear the newest time stamp.
C7_Witness ==
  /\ last.op = "loadConfig" /\ ~last.refresh /\ ~last.scanned
  /\ workingDirectory # undefined
  /\ readIdeReposCache(workingDirectory).hit
  /\ cacheFile.repos # <<>>
  /\ cacheFile.updatedAt < 1

\* C8: a read for wd is a hit only if the file stems from a write made with
\* exactly wd (a write replaces the whole file, so this is the most recent
\* write), and it then returns exactly the list given to that write.
C8_SingleSlot ==
  \A wd \in WorkDirs :
    LET r == readIdeReposCache(wd)
    IN r.hit =>
         /\ lastWrite.done
         /\ lastWrite.workingDirectory = wd
         /\ r.repos = lastWrite.repos

\* A warm-on-miss run for /a has just replaced the snapshot: /a is a hit
\* with its repositories and / is a miss.
C8_Witness ==
  /\ last.op = "loadConfig" /\ last.miss
  /\ lastWrite.done /\ lastWrite.workingDirectory = <<"a">>
  /\ lastWrite.repos # <<>>
  /\ readIdeReposCache(<<"a">>).hit
  /\ ~readIdeReposCache(<<>>).hit

\* C9: when loadConfig on the default path met a miss, it scanned, and at its
\* return the cache file is a valid snapshot for the working directory that
\* holds exactly the scanned repositories, which are the ones it loaded.
C9_WarmOnMiss ==
  (last.op = "loadConfig" /\ ~last.refresh /\ last.miss) =>
    /\ last.scanned
    /\ SnapshotFor(workingDirectory)
    /\ cacheFile.repos = findGitRepositories(workingDirectory).repos
    /\ readIdeReposCache(workingDirectory).hit
    /\ Len(autoDiscoveredRepos) = Len(cacheFile.repos)
    /\ {autoDiscoveredRepos[i] : i \in 1..Len(autoDiscoveredRepos)}
         = {cacheFile.repos[i] : i \in 1..Len(cacheFile.repos)}

\* A miss on the default path was warmed with two repositories.
C9_Witness ==
  /\ last.op = "loadConfig" /\ ~last.refresh /\ last.miss
  /\ Len(cacheFile.repos) >= 2

\* C10: when loadConfig runs on the default path right after a run of
\* loadConfig on the default path for the same working directory, with no
\* change in between, it loads the same list in the same order and does
\* not scan.
C10_Idempotent ==
  [][(/\ last.op = "loadConfig" /\ ~last.refresh /\ ~last.threw
      /\ workingDirectory # undefined
      /\ last'.op = "loadConfig" /\ ~last'.refresh)
     => (/\ autoDiscoveredRepos' = autoDiscoveredRepos
         /\ ~last'.scanned)]_vars

\* The second run in a row was served from the cache, and the sort changed
\* the order the cache holds.
C10_Witness ==
  /\ last.op = "loadConfig" /\ last.again /\ ~last.scanned
  /\ Len(autoDiscoveredRepos) >= 2
  /\ autoDiscoveredRepos # cacheFile.repos

\* C11: when loadConfig has run with the refresh option on an existing
\* working directory, whatever the cache file held before, it has scanned,
\* the cache file is a valid snapshot for the working directory that holds
\* exactly what a scan of the directory tree as it is now finds, and the
\* loaded list holds the same repositories.
C11_RefreshBypassesCache ==
  (last.op = "loadConfig" /\ last.refresh /\ ~last.threw
   /\ workingDirectory # undefined) =>
    /\ last.scanned
    /\ SnapshotFor(workingDirectory)
    /\ cacheFile.repos = findGitRepositories(workingDirectory).repos
    /\ Len(autoDiscoveredRepos) = Len(cacheFile.repos)
    /\ {autoDiscoveredRepos[i] : i \in 1..Len(autoDiscoveredRepos)}
         = {cacheFile.repos[i] : i \in 1..Len(cacheFile.repos)}

\* A refresh met a valid snapshot that lacked a repository added since, and
\* the new snapshot holds it.
C11_Witness ==
  /\ last.op = "loadConfig" /\ last.refresh /\ last.stale
  /\ cacheFile.repos # <<>>

\* C14: a run of loadConfig, with or without the refresh option, for a
\* configured working directory that does not exist throws the error that
\* names that directory, does not scan, loads nothing from the cache and
\* leaves the cache file as it was.
C14_FailFast ==
  [][(/\ last'.op = "loadConfig"
      /\ config.workingDirectory # undefined
      /\ config.workingDirectory \notin fs.dirs)
     => (/\ last'.threw
         /\ Thrown' = WorkingDirectoryDoesNotExist(config.workingDirectory)
         /\ ~last'.scanned /\ ~last'.miss
         /\ autoDiscoveredRepos' = <<>>
         /\ cacheFile' = cacheFile
         /\ lastWrite' = lastWrite)]_vars

\* A refresh for the missing directory /a has thrown and the snapshot an
\* earlier run wrote for / is still there.
C14_Witness ==
  /\ last.op = "loadConfig" /\ last.threw /\ last.refresh
  /\ Thrown.path = <<"a">>
  /\ <<"a">> \notin fs.dirs
  /\ SnapshotFor(<<>>) /\ cacheFile.repos # <<>>

\* C16: after loadConfig has returned in auto-discovery mode, be it from a
\* cache hit, a warm-on-miss scan or a refresh, no entry of the loaded list
\* bears a name that compares greater than the name of the entry after it.
C16_SortedByName ==
  (last.op = "loadConfig" /\ ~last.threw /\ workingDirectory # undefined) =>
    \A i \in 1..(Len(autoDiscoveredRepos) - 1) :
      localeCompare(autoDiscoveredRepos[i].name,
                    autoDiscoveredRepos[i + 1].name) <= 0

\* A cache hit loaded two repositories of different names which the
\* snapshot holds in descending order.
C16_Witness ==
  /\ last.op = "loadConfig" /\ ~last.refresh /\ ~last.miss /\ ~last.scanned
  /\ Len(cacheFile.repos) = 2
  /\ localeCompare(cacheFile.repos[1].name, cacheFile.repos[2].name) > 0
  /\ Len(autoDiscoveredRepos) = 2

\* The cache file is there and is no snapshot of the expected shape: it
\* fails to parse, or bears another version, or its repos is no array, or
\* an element of the array is no {name, path, topLevelFolder} record.
Corrupt ==
  /\ cacheFile.kind # "absent"
  /\ \/ cacheFile.kind = "garbage"
     \/ cacheFile.version # CacheVersion
     \/ ~cacheFile.reposIsArray
     \/ \E i \in 1..Len(cacheFile.repos) : cacheFile.repos[i] = EmptyObject

\* C12: when openIDE runs for an existing working directory and meets a
\* cache file that is corrupt, it does what it does on a miss: it scans,
\* leaves a valid snapshot of the scan result, opens the picker and puts
\* no error before the user.
C12_CorruptionLikeMiss ==
  [][(/\ last'.op = "loadConfig" /\ ~last'.refresh
      /\ config.workingDirectory # undefined
      /\ config.workingDirectory \in fs.dirs
      /\ Corrupt)
     => (/\ last'.scanned
         /\ SnapshotFor(config.workingDirectory)'
         /\ cacheFile'.repos
              = findGitRepositories(config.workingDirectory).repos
         /\ terminal'.picker = "fuzzy"
         /\ terminal'.error = NoError)]_vars

\* The (category, name, path) triples a category map holds
MapTriples(repos) ==
  UNION {{<<repos.categories[i].category, repos.categories[i].projects[j].name,
            repos.categories[i].projects[j].path>> :
            j \in 1..Len(repos.categories[i].projects)} :
         i \in 1..Len(repos.categories)}

\* The (category, name, path) triples of a list of projects
Triples(projects) ==
  {<<projects[i].category, projects[i].name, projects[i].path>> :
     i \in 1..Len(projects)}

\* C13: after a command has run loadConfig, when the configuration names
\* a working directory the catalog holds one entry for each loaded
\* repository, in the same order, with its name, path and top-level folder,
\* and nothing else, whatever the category map holds; when it names none,
\* the catalog holds exactly the projects of the category map, nothing was
\* scanned, nothing was loaded from the cache and the cache file is as it
\* was.
C13_ModeExclusive ==
  [][(last'.op = "loadConfig" /\ ~last'.threw) =>
       IF config.workingDirectory # undefined
       THEN /\ Len(getAllProjects') = Len(autoDiscoveredRepos')
            /\ \A i \in 1..Len(autoDiscoveredRepos') :
                 /\ getAllProjects'[i].name = autoDiscoveredRepos'[i].name
                 /\ getAllProjects'[i].path = autoDiscoveredRepos'[i].path
                 /\ getAllProjects'[i].category
                      = autoDiscoveredRepos'[i].topLevelFolder
       ELSE /\ Triples(getAllProjects') = MapTriples(config.repos)
            /\ Len(getAllProjects') = Cardinality(MapTriples(config.repos))
            /\ ~last'.scanned /\ ~last'.miss
            /\ autoDiscoveredRepos' = <<>>
            /\ cacheFile' = cacheFile
            /\ lastWrite' = lastWrite]_vars

\* The picker is open in auto-discovery mode on two discovered repositories
\* although the configuration holds a category map with a project.
C13_Witness ==
  /\ last.op = "loadConfig" /\ terminal.picker = "fuzzy"
  /\ config.workingDirectory # undefined
  /\ config.repos.categories # <<>>
  /\ Len(terminal.projects) = 2
  /\ terminal.projects = getAllProjects

\* C15: when a command runs loadConfig for a working directory that exists
\* and cannot be read, the command puts an error before the user that
\* names the directory, opens no picker and leaves the cache file as it
\* was.
C15_UnreadableIsFatal ==
  [][(/\ last'.op = "loadConfig"
      /\ config.workingDirectory # undefined
      /\ existsSyncDir(config.workingDirectory)
      /\ config.workingDirectory \in fs.locked)
     => (/\ terminal'.error # NoError
         /\ terminal'.error.path = config.workingDirectory
         /\ terminal'.picker = "none"
         /\ cacheFile' = cacheFile)]_vars

----------------------------------------------------------------------------
\* Properties of the search and of the formatted list

\* The keywords of an input: its longest pieces without white space, in
\* lower case.
Keywords(input) ==
  {toLowerCase(SubSeq(input, i, j)) :
     <<i, j>> \in {ij \in (1..Len(input)) \X (1..Len(input)) :
                    /\ ij[1] <= ij[2]
                    /\ \A k \in ij[1]..ij[2] : input[k] # " "
                    /\ ij[1] = 1 \/ input[ij[1] - 1] = " "
                    /\ ij[2] = Len(input) \/ input[ij[2] + 1] = " "}}

\* The name, category and path of an entry as one text
CombinedText(e) ==
  Chars(e.name) \o <<" ">> \o Chars(e.category) \o <<" ">> \o PathText(e.path)

\* w occurs in text when case is ignored.
OccursIgnoringCase(w, text) ==
  \E i \in 0..(Len(text) - Len(w)) :
    \A k \in 1..Len(w) : LowerChar(text[i + k]) = LowerChar(w[k])

\* The rows the user can select
Selectable == SelectSeq(terminal.rows, LAMBDA r : r.disabled = "")

\* C17: the entries on the selectable rows of the list shown for an input
\* are exactly the catalog entries in whose combined name, category and
\* path text every keyword of the input occurs when case is ignored; for
\* an input without keywords these are all entries.
C17_SearchAnd ==
  (terminal.picker = "fuzzy" /\ terminal.listed) =>
    /\ \A i \in 1..Len(Selectable) : Selectable[i].hasValue
    /\ {Selectable[i].value : i \in 1..Len(Selectable)}
         = {e \in {getAllProjects[i] : i \in 1..Len(getAllProjects)} :
              \A w \in Keywords(terminal.input) :
                OccursIgnoringCase(w, CombinedText(e))}
    /\ Keywords(terminal.input) = {}
         => Len(Selectable) = Len(getAllProjects)

\* The input "a B" has two keywords; of four entries the list shows the
\* two that hold both, one of them only when case is ignored.
C17_Witness ==
  /\ terminal.listed /\ terminal.input = <<"a", " ", "B">>
  /\ workingDirectory # undefined
  /\ Len(getAllProjects) = 4
  /\ Len(Selectable) = 2
  /\ \E i \in 1..2 : Selectable[i].value.name = "Ab"

\* s can be had from t by leaving elements out.
RECURSIVE IsSubsequence(_, _)
IsSubsequence(s, t) ==
  IF s = <<>> THEN TRUE
  ELSE IF t = <<>> THEN FALSE
  ELSE IF Head(s) = Head(t) THEN IsSubsequence(Tail(s), Tail(t))
  ELSE IsSubsequence(s, Tail(t))

\* The entries on the selectable rows, top to bottom
SelectableEntries == [i \in 1..Len(Selectable) |-> Selectable[i].value]

\* The place of an entry in the catalog
CatalogIndex(e) ==
  CHOOSE i \in 1..Len(getAllProjects) : getAllProjects[i] = e

\* C18 as stated: the entries on the selectable rows, read top to bottom,
\* are an order-preserving subsequence of the catalog.
C18_CatalogOrder ==
  (terminal.picker = "fuzzy" /\ terminal.listed) =>
    IsSubsequence(SelectableEntries, getAllProjects)

\* C18, amended: in manual mode the entries on the selectable rows are an
\* order-preserving subsequence of the catalog; in auto-discovery mode the
\* rows are grouped by category, and any two entries of the same category
\* are in the order the catalog has them in.
C18_CatalogOrderWithinGroups ==
  (terminal.picker = "fuzzy" /\ terminal.listed) =>
    IF workingDirectory = undefined
    THEN IsSubsequence(SelectableEntries, getAllProjects)
    ELSE \A i, j \in 1..Len(SelectableEntries) :
           (/\ i < j
            /\ SelectableEntries[i].category = SelectableEntries[j].category)
           => CatalogIndex(SelectableEntries[i])
                < CatalogIndex(SelectableEntries[j])

\* In auto-discovery mode the input "a" matches three entries; the list
\* shows the two of category a first, in catalog order, and then the entry
\* the catalog has first.
C18_Witness ==
  /\ terminal.listed /\ terminal.input = <<"a">>
  /\ workingDirectory # undefined
  /\ Len(SelectableEntries) = 3
  /\ SelectableEntries[1].name = "Ab" /\ SelectableEntries[2].name = "c"
  /\ SelectableEntries[3] = getAllProjects[1]

\* The separator rows of the list shown, top to bottom
Separators == SelectSeq(terminal.rows, LAMBDA r : r.disabled = "separator")

\* The category a separator row stands for
SeparatorCategory(row) ==
  CHOOSE c \in {getAllProjects[i].category : i \in 1..Len(getAllProjects)} :
    SeparatorRow(c) = row

\* C19: in a list made by formatProjectsWithSeparators the separator of
\* the root sentinel category '/' is the last separator, and the
\* separators before it are in ascending order of their categories.
C19_CategoryOrder ==
  (terminal.listed /\ workingDirectory # undefined) =>
    \A i, j \in 1..Len(Separators) :
      i < j =>
        /\ SeparatorCategory(Separators[i]) # RootSentinel
        /\ SeparatorCategory(Separators[j]) # RootSentinel
             => localeCompare(SeparatorCategory(Separators[i]),
                              SeparatorCategory(Separators[j])) < 0

\* C20: in a list made by formatProjectsWithSeparators every separator row
\* is directly followed by a project row of its category, every project
\* row has the separator of its category above it with no other separator
\* in between, and no two separator rows are for the same category.
C20_SeparatorStructure ==
  (terminal.listed /\ workingDirectory # undefined) =>
    LET rows == terminal.rows
        IsSeparator(i) == rows[i].disabled = "separator"
    IN /\ \A i \in 1..Len(rows) :
            IsSeparator(i) =>
              /\ i < Len(rows)
              /\ ~IsSeparator(i + 1)
              /\ rows[i + 1].value.category = SeparatorCategory(rows[i])
       /\ \A i \in 1..Len(rows) :
            ~IsSeparator(i) =>
              \E k \in 1..(i - 1) :
                /\ IsSeparator(k)
                /\ SeparatorCategory(rows[k]) = rows[i].value.category
                /\ \A m \in (k + 1)..i : ~IsSeparator(m)
       /\ \A i, j \in 1..Len(rows) :
            (IsSeparator(i) /\ IsSeparator(j) /\ i # j) => rows[i] # rows[j]

\* The list shows four entries under three separators; the group of
\* category a has two rows and its entries are not neighbours in the
\* catalog.
C20_Witness ==
  /\ terminal.listed /\ workingDirectory # undefined
  /\ Len(Separators) = 3
  /\ Len(terminal.rows) = 7
  /\ getAllProjects[2].category = "a" /\ getAllProjects[4].category = "a"

----------------------------------------------------------------------------
\* Further properties of the scanner

----------------------------------------------------------------------------
\* Further properties of the formatted list

\* The list formatProjectsWithSeparators was given for the input shown
Formatted == filteredProjects(getAllProjects, terminal.input)

\* How often e occurs in the sequence s
Occurrences(e, s) == Cardinality({i \in 1..Len(s) : s[i] = e})

\* C30: the project rows of a list made by formatProjectsWithSeparators
\* hold each entry it was given as often as it was given and nothing else,
\* there are as many separators as the entries have categories, no entry
\* gives no row, and two entries of one category are in the order they
\* were given in.
C30_GroupingKeepsEntries ==
  (terminal.listed /\ workingDirectory # undefined) =>
    /\ Len(SelectableEntries) = Len(Formatted)
    /\ \A i \in 1..Len(Formatted) :
         Occurrences(Formatted[i], SelectableEntries)
           = Occurrences(Formatted[i], Formatted)
    /\ Len(Separators)
         = Cardinality({Formatted[i].category : i \in 1..Len(Formatted)})
    /\ Len(terminal.rows) = Len(Separators) + Len(SelectableEntries)
    /\ Formatted = <<>> => terminal.rows = <<>>
    /\ \A i, j \in 1..Len(SelectableEntries) :
         (/\ i < j
          /\ SelectableEntries[i].category = SelectableEntries[j].category)
         => \E m, n \in 1..Len(Formatted) :
              /\ m < n
              /\ Formatted[m] = SelectableEntries[i]
              /\ Formatted[n] = SelectableEntries[j]

\* The input "B" leaves three of four entries, of three categories: the
\* list has six rows.
C30_Witness ==
  /\ terminal.listed /\ workingDirectory # undefined
  /\ terminal.input = <<"B">>
  /\ Len(getAllProjects) = 4 /\ Len(Formatted) = 3
  /\ Len(Separators) = 3 /\ Len(terminal.rows) = 6

\* The input "aa" leaves no entry of a catalog of four: the list is empty.
C30_EmptyList ==
  /\ terminal.listed /\ workingDirectory # undefined
  /\ Len(getAllProjects) = 4 /\ Formatted = <<>> /\ terminal.rows = <<>>

\* C27: filtering is independent of the history of the prompt: whatever was
\* typed and deleted before, the rows on the screen are what the search
\* returns for the present input alone on the full catalog, which is the
\* catalog the prompt was opened with.
C27_HistoryIndependent ==
  (terminal.picker = "fuzzy" /\ terminal.listed) =>
    /\ getAllProjects = terminal.projects
    /\ terminal.rows = RowsFor(terminal.projects, terminal.input)

\* After keys and deletions the rows have brought back an entry that an
\* earlier, longer input had filtered out, and the input on the screen
\* still filters out some entry of the catalog.
C27_Witness ==
  /\ terminal.picker = "fuzzy" /\ terminal.listed
  /\ terminal.regrew
  /\ terminal.input # <<>>
  /\ Len(ShownProjects) \in 1..(Len(terminal.projects) - 1)

\* C22: openIDE takes the single-step flattened picker whenever the
\* configuration names a working directory or the command line held a
\* search keyword, and the two-step flow exactly when the configuration
\* names no working directory and there was no keyword; the picker an
\* invocation has opened stays the one it chose.
C22_FlowChoice ==
  (last.op = "loadConfig" /\ ~last.threw /\ terminal.picker # "none") =>
    /\ terminal.picker \in {"fuzzy", "twoStep"}
    /\ terminal.picker = "fuzzy"
         <=> (config.workingDirectory # undefined \/ terminal.searchMode)
    /\ terminal.picker = "twoStep"
         <=> (config.workingDirectory = undefined /\ ~terminal.searchMode)

\* A configuration with a category map and no working directory, opened
\* with a search keyword: the flattened picker lists the projects of the
\* map.
C22_Witness ==
  /\ terminal.picker = "fuzzy"
  /\ config.workingDirectory = undefined
  /\ terminal.searchMode
  /\ terminal.projects # <<>>

\* A configuration with a category map and no working directory, opened
\* without a keyword: the two-step flow.
C22_TwoStep ==
  /\ terminal.picker = "twoStep"
  /\ config.workingDirectory = undefined
  /\ config.repos.defined
  /\ ~terminal.searchMode

\* C25: a refresh under a configuration without a working directory is a
\* reported no-op: it scans nothing, leaves the cache file as it is and
\* tells the user that there is nothing to refresh; under a configuration
\* with a working directory, completion is reported only when the cache
\* file has been overwritten with the repositories of a fresh scan.
C25_RefreshReported ==
  [][(last'.op = "loadConfig" /\ last'.refresh) =>
       /\ config.workingDirectory = undefined =>
            /\ ~last'.scanned
            /\ scan' = scan
            /\ cacheFile' = cacheFile
            /\ lastWrite' = lastWrite
            /\ terminal'.error = NoError
            /\ terminal'.printed
                 = "No workingDirectory configured; nothing to refresh."
       /\ terminal'.printed = "IDE repository cache refreshed." =>
            /\ config.workingDirectory # undefined
            /\ last'.scanned
            /\ cacheFile'.kind = "json"
            /\ cacheFile'.reposIsArray
            /\ cacheFile'.version = CacheVersion
            /\ cacheFile'.workingDirectory = config.workingDirectory
            /\ cacheFile'.repos
                 = findGitRepositories(config.workingDirectory).repos
            /\ lastWrite'.done
            /\ lastWrite'.workingDirectory = config.workingDirectory]_vars

\* A refresh under a configuration without a working directory has told
\* the user that there is nothing to refresh, and the snapshot an earlier
\* run wrote for /a with repositories is still in the cache file.
C25_Witness ==
  /\ last.op = "loadConfig" /\ last.refresh
  /\ config.workingDirectory = undefined
  /\ terminal.printed = "No workingDirectory configured; nothing to refresh."
  /\ cacheFile.kind = "json"
  /\ cacheFile.workingDirectory = <<"a">>
  /\ cacheFile.repos # <<>>

\* A refresh has reported completion and the cache file holds the
\* repositories of the working directory.
C25_Refreshed ==
  /\ last.op = "loadConfig" /\ last.refresh
  /\ terminal.printed = "IDE repository cache refreshed."
  /\ cacheFile.workingDirectory = config.workingDirectory
  /\ cacheFile.repos # <<>>

\* The entries of the catalog
CatalogEntries == {getAllProjects[i] : i \in 1..Len(getAllProjects)}

\* The row r of the prompt carries the catalog entry e: as its value in the
\* flattened picker, by its name within the chosen category in the
\* two-step flow.
Carries(r, e) ==
  /\ r.disabled = "" /\ r.hasValue
  /\ IF terminal.picker = "fuzzy" THEN r.value = e
     ELSE r.value.name = e.name /\ e.category = currentCategory

\* C21: a separator row cannot be selected and has no value, and every
\* other row of the flattened picker carries an entry of the catalog; the
\* path and the name that openIDE hands to the launch of the editor are
\* those of one catalog entry that a project row of the prompt carried;
\* and an editor is launched only by a selection at a prompt that lists
\* projects.
C21_LaunchOnlyFromProjectRow ==
  [][/\ \A i \in 1..Len(terminal'.rows) :
          LET r == terminal'.rows[i]
          IN IF r.disabled # ""
             THEN ~r.hasValue /\ r.value = NoProject
             ELSE /\ r.hasValue
                  /\ terminal'.picker = "fuzzy"
                       => r.value \in CatalogEntries
     /\ terminal'.launched # NoLaunch =>
          /\ terminal.launched = NoLaunch
          /\ terminal.step = "project" /\ terminal.listed
          /\ ~terminal'.aborted
          /\ \E i \in 1..Len(terminal.rows) :
               \E e \in CatalogEntries :
                 /\ Carries(terminal.rows[i], e)
                 /\ terminal'.launched.path = e.path
                 /\ terminal'.launched.via = "open -a Cursor"
                      => terminal'.launched.name = e.name]_vars

\* Under a working directory the picker listed /a/c below the separator
\* of a, and Cursor has been launched on /a/c.
C21_Witness ==
  /\ terminal.picker = "fuzzy"
  /\ config.workingDirectory = <<>>
  /\ terminal.launched
       = [via |-> "open -a Cursor", path |-> <<"a", "c">>, name |-> "c"]
  /\ terminal.error = NoError

\* The two-step flow has launched claude in the directory of a project of
\* the category chosen at the first prompt.
C21_TwoStepLaunch ==
  /\ terminal.picker = "twoStep"
  /\ currentCategory = "work"
  /\ terminal.launched = [via |-> "claude", path |-> <<"a", "Ab">>,
                          name |-> ""]

\* C24: when the user has aborted the picker, openIDE has returned, no
\* editor has been launched and no error has been reported.
C24_CancelIsNoError ==
  terminal.aborted =>
    /\ terminal.step = "closed"
    /\ terminal.launched = NoLaunch
    /\ terminal.error = NoError
    /\ terminal.printed = ""

\* The user has aborted a picker that listed projects, and openIDE has
\* reported the abort as an error of opening the project.
C24_AbortReported ==
  /\ terminal.aborted
  /\ terminal.step = "closed"
  /\ terminal.launched = NoLaunch
  /\ terminal.printed = "Error opening project in"
  /\ terminal.error.message = "User force closed the prompt"

\* The user has aborted the picker and the process has ended inside the
\* prompt: openIDE has not returned.
C24_AbortKilled ==
  /\ terminal.aborted
  /\ terminal.step = "killed"
  /\ terminal.launched = NoLaunch
  /\ terminal.printed = ""

\* The names on the rows of a prompt of the two-step flow
ShownNames == {terminal.rows[i].value.name : i \in 1..Len(terminal.rows)}

\* C23: at the prompts of the two-step flow a category is listed if and
\* only if every keyword of the input occurs in its name when case is
\* ignored, and a project of the chosen category is listed if and only if
\* every keyword of the input occurs in its name or in its path when case
\* is ignored.
C23_TwoStepSearchAnd ==
  (terminal.picker = "twoStep" /\ terminal.listed) =>
    IF terminal.step = "category"
    THEN ShownNames
           = {c \in {Categories[i] : i \in 1..Len(Categories)} :
                \A w \in Keywords(terminal.input) :
                  OccursIgnoringCase(w, Chars(c))}
    ELSE ShownNames
           = {p.name : p \in
                {q \in {CurrentProjects[i] : i \in 1..Len(CurrentProjects)} :
                   \A w \in Keywords(terminal.input) :
                     \/ OccursIgnoringCase(w, Chars(q.name))
                     \/ OccursIgnoringCase(w, PathText(q.path))}}

\* The category prompt shows no row for the input " a", although the
\* configuration has a category named a.
C23_PaddedInput ==
  /\ terminal.picker = "twoStep" /\ terminal.step = "category"
  /\ terminal.listed
  /\ terminal.input = <<" ", "a">>
  /\ \E i \in 1..Len(Categories) : Categories[i] = "a"
  /\ terminal.rows = <<>>

\* The project prompt of the category work shows no row for the input
\* "a B", although the project Ab holds both keywords.
C23_TwoKeywords ==
  /\ terminal.picker = "twoStep" /\ terminal.step = "project"
  /\ terminal.listed
  /\ terminal.input = <<"a", " ", "B">>
  /\ \E i \in 1..Len(CurrentProjects) : CurrentProjects[i].name = "Ab"
  /\ terminal.rows = <<>>

\* With one keyword and no white space the prompts list as the flattened
\* picker would: the project prompt of the category work shows Ab alone
\* for the input "a".
C23_OneKeyword ==
  /\ terminal.picker = "twoStep" /\ terminal.step = "project"
  /\ terminal.listed
  /\ terminal.input = <<"a">>
  /\ Len(CurrentProjects) = 2
  /\ ShownNames = {"Ab"}

----------------------------------------------------------------------------
\* Properties of the cloud commands

\* C26: cloudLogin and cloudScp have executed ssh or scp against the prod
\* environment only if, in the same invocation, the production
\* confirmation was shown and answered with yes; and when the confirmation
\* was declined they have returned and have executed nothing.
C26_ProductionSafety ==
  /\ (cloud.executed # NoCommand /\ cloud.executed.env = "prod") =>
       cloud.confirmShown /\ cloud.confirmProduction
  /\ cloud.executed # NoCommand => cloud.executed.env = cloud.env
  /\ cloud.confirmProduction => cloud.confirmShown
  /\ (cloud.confirmShown /\ ~cloud.confirmProduction) =>
       cloud.executed = NoCommand
  /\ cloud.printed \in {"Production connection cancelled.",
                        "Production operation cancelled."} =>
       /\ cloud.confirmShown /\ ~cloud.confirmProduction
       /\ cloud.pc = "returned" /\ cloud.exitCode = 0
       /\ cloud.executed = NoCommand

\* cloudScp, started without an environment, has copied a directory to
\* the prod environment the user chose at the prompt, after the user had
\* answered the confirmation with yes.
C26_Witness ==
  /\ cloud.command = "cloudScp"
  /\ cloud.executed = [program |-> "scp", service |-> "api", env |-> "prod",
                       recursive |-> TRUE]
  /\ cloud.confirmShown /\ cloud.confirmProduction
  /\ cloud.pc = "returned"

\* cloudLogin for prod has returned after the user declined.
C26_Declined ==
  /\ cloud.command = "cloudLogin"
  /\ cloud.env = "prod"
  /\ cloud.printed = "Production connection cancelled."
  /\ cloud.executed = NoCommand

----------------------------------------------------------------------------
\* Properties of two invocations at the same time

\* No process is inside loadConfig.
AllFinished == \A p \in Procs : Proc(p).pc \in {"idle", "done"}

\* A read of the cache file, whenever it happens, returns the whole list of
\* the write that was the last to return, or it is a miss.
WholeOrMiss ==
  LET r == readIdeReposCache(config.workingDirectory)
  IN r.hit => lastWrite.done /\ r.repos = lastWrite.repos

\* C28: with two invocations racing on the cache file, every read of the
\* cache returns the whole list of a single write or is a miss, and once
\* both invocations have finished the cache file holds exactly the snapshot
\* of the write that was the last to complete.
C28_AtomicReplace ==
  /\ WholeOrMiss
  /\ (AllFinished /\ lastWrite.done) =>
       /\ SnapshotFor(lastWrite.workingDirectory)
       /\ cacheFile.repos = lastWrite.repos

\* Both invocations have finished, the write that completed last was the
\* one with the shorter text, and the cache file is that text followed by
\* the tail of the longer one: no read parses it.
C28_TornFile ==
  /\ AllFinished /\ lastWrite.done
  /\ \A p \in Procs : Proc(p).pc = "done" /\ ~Proc(p).hit
  /\ lastWrite.repos = <<>>
  /\ cacheFile = Garbage
  /\ race.length > TextLength(writeIdeReposCache(<<>>, <<>>, 0))
  /\ ~readIdeReposCache(config.workingDirectory).hit

\* Both invocations have finished and the cache file holds the snapshot of
\* the write that completed last, which replaced a shorter one.
C28_LastWriterWins ==
  /\ \A p \in Procs : Proc(p).pc = "done" /\ ~Proc(p).hit
  /\ Proc(1).repos # Proc(2).repos
  /\ SnapshotFor(<<>>)
  /\ cacheFile.repos = lastWrite.repos
  /\ cacheFile.repos # <<>>

====
